---- MODULE Spec2Model ----
(***************************************************************************)
(* The recurring-schedule projection engine of backend/                    *)
(* recurring_projection.py: project_recurring_schedule,                    *)
(* project_recurring_schedules and the helpers they call, as a state       *)
(* machine whose steps are the statements of the Python code.              *)
(*                                                                         *)
(* A date is its proleptic Gregorian ordinal (date.toordinal()), so that   *)
(* date comparison is integer comparison and timedelta arithmetic is       *)
(* integer addition; year, month and day are recovered by YearOf, MonthOf  *)
(* and DayOf.  A string is the sequence of its characters.                 *)
(***************************************************************************)
EXTENDS Integers, Sequences, FiniteSets, TLC

(***************************************************************************)
(* Bounds of the model.                                                    *)
(***************************************************************************)
\* Days after 2024-01-01 that the day-by-day windows of the interval
\* frequencies reach.
IntervalSpan == 45
\* Years after 2024 that the windows of the calendar frequencies reach.
MaxYears == 4
\* Longest snapshot of actual transactions.
MaxTxns == 2
\* Longest batch of schedules.
MaxSchedules == 2
\* Calls that may be in progress at once.
NumCalls == 2

(***************************************************************************)
(* datetime.date and calendar.monthrange.                                  *)
(***************************************************************************)
IsLeap(y) == (y % 4 = 0) /\ ((y % 100 # 0) \/ (y % 400 = 0))

DaysInMonth(y, m) ==
    IF m = 2 THEN (IF IsLeap(y) THEN 29 ELSE 28)
    ELSE IF m \in {4, 6, 9, 11} THEN 30 ELSE 31

DaysBeforeYear(y) ==
    (y - 1) * 365 + ((y - 1) \div 4) - ((y - 1) \div 100) + ((y - 1) \div 400)

RECURSIVE DaysBeforeMonth(_, _)
DaysBeforeMonth(y, m) ==
    IF m = 1 THEN 0 ELSE DaysBeforeMonth(y, m - 1) + DaysInMonth(y, m - 1)

\* date(y, m, d)
Date(y, m, d) == DaysBeforeYear(y) + DaysBeforeMonth(y, m) + d

YearOf(n) ==
    CHOOSE y \in (n \div 366)..((n \div 365) + 1) :
        DaysBeforeYear(y) < n /\ n <= DaysBeforeYear(y + 1)

MonthOf(n) ==
    LET y == YearOf(n)
        r == n - DaysBeforeYear(y)
    IN  CHOOSE m \in 1..12 :
            DaysBeforeMonth(y, m) < r /\ r <= DaysBeforeMonth(y, m) + DaysInMonth(y, m)

DayOf(n) ==
    LET y == YearOf(n)
    IN  n - DaysBeforeYear(y) - DaysBeforeMonth(y, MonthOf(n))

\* datetime.MAXYEAR and date.max: the constructor date(...) and the sum
\* date + timedelta raise for a date beyond it.
MAXYEAR == 9999
date_max == Date(MAXYEAR, 12, 31)

Min(a, b) == IF a <= b THEN a ELSE b

(***************************************************************************)
(* str: strip, lower and isalnum over the characters the inputs use.       *)
(***************************************************************************)
UpperChars == {"B", "E", "I", "W", "X"}
LowerChars == {"a", "b", "c", "d", "e", "j", "h", "i", "k", "l", "m", "n", "o", "p",
               "q", "r", "s", "t", "u", "v", "w", "x", "y"}
DigitChars == {"2"}
SpaceChars == {" "}
PunctChars == {"-", "_"}

LowerChar(ch) ==
    CASE ch = "B" -> "b"
      [] ch = "E" -> "e"
      [] ch = "I" -> "i"
      [] ch = "W" -> "w"
      [] ch = "X" -> "x"
      [] OTHER -> ch

IsAlnum(ch) == ch \in UpperChars \cup LowerChars \cup DigitChars
IsSpace(ch) == ch \in SpaceChars

\* str.lower()
Lower(s) == [k \in 1..Len(s) |-> LowerChar(s[k])]

\* str.strip()
Strip(s) ==
    LET keep == {k \in 1..Len(s) : ~IsSpace(s[k])}
    IN  IF keep = {} THEN <<>>
        ELSE LET lo == CHOOSE k \in keep : \A j \in keep : k <= j
                 hi == CHOOSE k \in keep : \A j \in keep : j <= k
             IN  SubSeq(s, lo, hi)

\* "".join(ch for ch in s if ch.isalnum())
OnlyAlnum(s) == SelectSeq(s, IsAlnum)

(***************************************************************************)
(* String literals of recurring_projection.py, as character sequences.     *)
(***************************************************************************)
S_weekly == <<"w", "e", "e", "k", "l", "y">>
S_biweekly == <<"b", "i", "w", "e", "e", "k", "l", "y">>
S_byweekly == <<"b", "y", "w", "e", "e", "k", "l", "y">>
S_monthly == <<"m", "o", "n", "t", "h", "l", "y">>
S_yearly == <<"y", "e", "a", "r", "l", "y">>
S_income == <<"i", "n", "c", "o", "m", "e">>
S_expense == <<"e", "x", "p", "e", "n", "s", "e">>
S_investment == <<"i", "n", "v", "e", "s", "t", "m", "e", "n", "t">>
S_projected == <<"p", "r", "o", "j", "e", "c", "t", "e", "d">>

WEEKLY_DAYS == 7
BIWEEKLY_DAYS == 14
SUPPORTED_FREQUENCIES == {S_weekly, S_biweekly, S_monthly, S_yearly}
SUPPORTED_KINDS == {S_income, S_expense, S_investment}

\* KIND_TO_PROJECTION with an investment displayed as its own type.
KIND_TO_PROJECTION_own_type ==
    [k \in SUPPORTED_KINDS |->
        CASE k = S_income -> <<S_income, FALSE>>
          [] k = S_expense -> <<S_expense, FALSE>>
          [] k = S_investment -> <<S_investment, TRUE>>]

KIND_TO_PROJECTION ==
    [k \in SUPPORTED_KINDS |->
        CASE k = S_income -> <<S_income, FALSE>>
          [] k = S_expense -> <<S_expense, FALSE>>
          [] k = S_investment -> <<S_expense, TRUE>>]

\* KIND_TO_ACTUAL_TYPES keyed by the displayed type: expense transactions
\* suppress an investment schedule too.
KIND_TO_ACTUAL_TYPES_by_display ==
    [k \in SUPPORTED_KINDS |->
        CASE k = S_income -> {S_income}
          [] k = S_expense -> {S_expense}
          [] k = S_investment -> {S_expense, S_investment}]

KIND_TO_ACTUAL_TYPES ==
    [k \in SUPPORTED_KINDS |->
        CASE k = S_income -> {S_income}
          [] k = S_expense -> {S_expense}
          [] k = S_investment -> {S_investment}]

\* The messages of the four ValueErrors.
RangeError == "range_start must be on or before range_end."
AmountError == "schedule.amount must be greater than zero."
FrequencyError == "Only weekly, biweekly, monthly, or yearly schedules are supported."
KindError == "Only income, expense, or investment schedules are supported."
\* The OverflowError of date + timedelta and the ValueError of date(...).
DateOverflowError == "date value out of range"
YearRangeError == "year 10000 is out of range"

\* The outcome of a call or of a helper that may raise.
Returned(v) == [raised |-> FALSE, value |-> v]
Raised(msg) == [raised |-> TRUE, error |-> msg]

\* None
None == <<"None">>

(***************************************************************************)
(* dict: get with a default, and item assignment.                          *)
(***************************************************************************)
EmptyDict == <<>>
DictGet(d, k, default) == IF k \in DOMAIN d THEN d[k] ELSE default
DictSet(d, k, v) == [x \in (DOMAIN d) \cup {k} |-> IF x = k THEN v ELSE d[x]]

(***************************************************************************)
(* The helpers of recurring_projection.py.                                 *)
(***************************************************************************)
\* _normalize_frequency that keeps the characters that are not alphanumeric.
_normalize_frequency_no_filter(value) == Lower(Strip(value))

_normalize_frequency(value) == OnlyAlnum(Lower(Strip(value)))

_validate_frequency(frequency) ==
    LET normalized0 == _normalize_frequency(frequency)
        normalized == IF normalized0 = S_byweekly THEN S_biweekly ELSE normalized0
    IN  IF normalized \notin SUPPORTED_FREQUENCIES
        THEN Raised(FrequencyError)
        ELSE Returned(normalized)

\* _normalize_kind that deletes what is not alphanumeric, as for a frequency.
_normalize_kind_alnum(value) == OnlyAlnum(Lower(Strip(value)))

\* _normalize_kind without .lower().
_normalize_kind_strip_only(value) == Strip(value)

_normalize_kind(value) == Lower(Strip(value))

_validate_kind(kind) ==
    LET normalized == _normalize_kind(kind)
    IN  IF normalized \notin SUPPORTED_KINDS
        THEN Raised(KindError)
        ELSE Returned(normalized)

_coerce_amount(amount) == amount

\* _add_months with February taken as 28 days in every year.
_add_months_no_leap(start_date, months, anchor_day) ==
    LET total_month == MonthOf(start_date) - 1 + months
        year == YearOf(start_date) + (total_month \div 12)
        month == (total_month % 12) + 1
        last_day == IF month = 2 THEN 28 ELSE DaysInMonth(year, month)
        day == Min(anchor_day, last_day)
    IN  Date(year, month, day)

_add_months(start_date, months, anchor_day) ==
    LET total_month == MonthOf(start_date) - 1 + months
        year == YearOf(start_date) + (total_month \div 12)
        month == (total_month % 12) + 1
        last_day == DaysInMonth(year, month)
        day == Min(anchor_day, last_day)
    IN  Date(year, month, day)

\* _first_occurrence_on_or_after that always moves past the window's start.
_first_occurrence_next(start_date, minimum_date, interval_days) ==
    IF start_date >= minimum_date THEN start_date
    ELSE LET days_between == minimum_date - start_date
             intervals == (days_between \div interval_days) + 1
         IN  start_date + interval_days * intervals

\* _first_occurrence_on_or_after rounding the number of intervals down.
_first_occurrence_floor(start_date, minimum_date, interval_days) ==
    IF start_date >= minimum_date THEN start_date
    ELSE LET days_between == minimum_date - start_date
             intervals == days_between \div interval_days
         IN  start_date + interval_days * intervals

\* _first_occurrence_on_or_after starting at the window, out of phase.
_first_occurrence_unaligned(start_date, minimum_date, interval_days) ==
    IF start_date >= minimum_date THEN start_date ELSE minimum_date

_first_occurrence_on_or_after(start_date, minimum_date, interval_days) ==
    IF start_date >= minimum_date THEN start_date
    ELSE LET days_between == minimum_date - start_date
             intervals == (days_between + interval_days - 1) \div interval_days
         IN  start_date + interval_days * intervals

\* _first_monthly_on_or_after without the second look at the candidate.
_first_monthly_no_retry(start_date, minimum_date) ==
    IF start_date >= minimum_date THEN <<start_date, 0>>
    ELSE LET months_between ==
                 (YearOf(minimum_date) - YearOf(start_date)) * 12
                     + (MonthOf(minimum_date) - MonthOf(start_date))
         IN  <<_add_months(start_date, months_between, DayOf(start_date)),
               months_between>>

_first_monthly_on_or_after(start_date, minimum_date) ==
    IF start_date >= minimum_date THEN <<start_date, 0>>
    ELSE LET months_between ==
                 (YearOf(minimum_date) - YearOf(start_date)) * 12
                     + (MonthOf(minimum_date) - MonthOf(start_date))
             candidate == _add_months(start_date, months_between, DayOf(start_date))
         IN  IF candidate < minimum_date
             THEN <<_add_months(start_date, months_between + 1, DayOf(start_date)),
                    months_between + 1>>
             ELSE <<candidate, months_between>>

\* _first_yearly_on_or_after without its early return.
_first_yearly_without_early_return(start_date, minimum_date) ==
    LET years_between == YearOf(minimum_date) - YearOf(start_date)
        months_between == years_between * 12
        candidate == _add_months(start_date, months_between, DayOf(start_date))
    IN  IF candidate < minimum_date
        THEN <<_add_months(start_date, months_between + 12, DayOf(start_date)),
               months_between + 12>>
        ELSE <<candidate, months_between>>

\* _first_yearly_on_or_after without the second look at the candidate.
_first_yearly_no_retry(start_date, minimum_date) ==
    IF start_date >= minimum_date THEN <<start_date, 0>>
    ELSE LET years_between == YearOf(minimum_date) - YearOf(start_date)
             months_between == years_between * 12
         IN  <<_add_months(start_date, months_between, DayOf(start_date)),
               months_between>>

_first_yearly_on_or_after(start_date, minimum_date) ==
    IF start_date >= minimum_date THEN <<start_date, 0>>
    ELSE LET years_between == YearOf(minimum_date) - YearOf(start_date)
             months_between == years_between * 12
             candidate == _add_months(start_date, months_between, DayOf(start_date))
         IN  IF candidate < minimum_date
             THEN <<_add_months(start_date, months_between + 12, DayOf(start_date)),
                    months_between + 12>>
             ELSE <<candidate, months_between>>

\* The loop of _index_existing_transactions assigning the date in place of
\* adding it: the last transaction of an account and type wins.
IndexAddLast(index, txn) ==
    LET account_index == DictGet(index, txn.account_id, EmptyDict)
        normalized_type == _normalize_kind(txn.type)
    IN  DictSet(index, txn.account_id,
                DictSet(account_index, normalized_type, {txn.date}))

\* One iteration of the loop of _index_existing_transactions.
IndexAdd(index, txn) ==
    LET account_index == DictGet(index, txn.account_id, EmptyDict)
        normalized_type == _normalize_kind(txn.type)
        dates == DictGet(account_index, normalized_type, {})
    IN  DictSet(index, txn.account_id,
                DictSet(account_index, normalized_type, dates \cup {txn.date}))

RECURSIVE IndexFrom(_, _, _)
IndexFrom(index, existing_transactions, k) ==
    IF k > Len(existing_transactions) THEN index
    ELSE IndexFrom(IndexAdd(index, existing_transactions[k]), existing_transactions, k + 1)

_index_existing_transactions(existing_transactions) ==
    IndexFrom(EmptyDict, existing_transactions, 1)

\* _excluded_dates_for_schedule over the transactions of every account.
_excluded_dates_any_account(schedule, normalized_kind, existing_index) ==
    UNION {DictGet(existing_index[account_id], actual_type, {}) :
               account_id \in DOMAIN existing_index,
               actual_type \in KIND_TO_ACTUAL_TYPES[normalized_kind]}

_excluded_dates_for_schedule(schedule, normalized_kind, existing_index) ==
    LET account_index == DictGet(existing_index, schedule.account_id, EmptyDict)
    IN  UNION {DictGet(account_index, actual_type, {}) :
                   actual_type \in KIND_TO_ACTUAL_TYPES[normalized_kind]}

\* The lookups done with setdefault: an absent account and an absent type
\* are added to the index with empty values.
IndexAfterSetdefault(schedule, normalized_kind, existing_index) ==
    LET account_index == DictGet(existing_index, schedule.account_id, EmptyDict)
        types == KIND_TO_ACTUAL_TYPES[normalized_kind]
    IN  DictSet(existing_index, schedule.account_id,
                [actual_type \in (DOMAIN account_index) \cup types |->
                    DictGet(account_index, actual_type, {})])

\* Lines 182-184: what _excluded_dates_for_schedule leaves of the index it
\* is handed.  dict.get adds no key, and update writes to the local set.
IndexAfterLookup(schedule, normalized_kind, existing_index) == existing_index

(***************************************************************************)
(* _project_schedule, statement by statement.                              *)
(***************************************************************************)
\* The checks with the kind validated before the frequency.
ValidateScheduleKindFirst(schedule, range_start, range_end, check_range) ==
    IF check_range /\ range_start > range_end THEN Raised(RangeError)
    ELSE IF schedule.amount <= 0 THEN Raised(AmountError)
    ELSE LET normalized_kind == _validate_kind(schedule.kind)
         IN  IF normalized_kind.raised THEN normalized_kind
             ELSE LET normalized_frequency == _validate_frequency(schedule.frequency)
                  IN  IF normalized_frequency.raised THEN normalized_frequency
                      ELSE Returned(<<normalized_frequency.value, normalized_kind.value>>)

\* The checks with range_start >= range_end refused.
ValidateScheduleRangeInclusive(schedule, range_start, range_end, check_range) ==
    IF check_range /\ range_start >= range_end THEN Raised(RangeError)
    ELSE IF schedule.amount <= 0 THEN Raised(AmountError)
    ELSE LET normalized_frequency == _validate_frequency(schedule.frequency)
         IN  IF normalized_frequency.raised THEN normalized_frequency
             ELSE LET normalized_kind == _validate_kind(schedule.kind)
                  IN  IF normalized_kind.raised THEN normalized_kind
                      ELSE Returned(<<normalized_frequency.value, normalized_kind.value>>)

\* The checks with an amount of zero let through.
ValidateScheduleZeroAmount(schedule, range_start, range_end, check_range) ==
    IF check_range /\ range_start > range_end THEN Raised(RangeError)
    ELSE IF schedule.amount < 0 THEN Raised(AmountError)
    ELSE LET normalized_frequency == _validate_frequency(schedule.frequency)
         IN  IF normalized_frequency.raised THEN normalized_frequency
             ELSE LET normalized_kind == _validate_kind(schedule.kind)
                  IN  IF normalized_kind.raised THEN normalized_kind
                      ELSE Returned(<<normalized_frequency.value, normalized_kind.value>>)

\* The checks with a schedule that starts after the window refused.
ValidateScheduleStartInWindow(schedule, range_start, range_end, check_range) ==
    IF check_range /\ range_start > range_end THEN Raised(RangeError)
    ELSE IF schedule.start_date > range_end THEN Raised(RangeError)
    ELSE IF schedule.amount <= 0 THEN Raised(AmountError)
    ELSE LET normalized_frequency == _validate_frequency(schedule.frequency)
         IN  IF normalized_frequency.raised THEN normalized_frequency
             ELSE LET normalized_kind == _validate_kind(schedule.kind)
                  IN  IF normalized_kind.raised THEN normalized_kind
                      ELSE Returned(<<normalized_frequency.value, normalized_kind.value>>)

\* Lines 101-106: the checks, in the order of the code.  Returns the
\* normalized frequency and kind, or the ValueError raised.
ValidateSchedule(schedule, range_start, range_end, check_range) ==
    IF check_range /\ range_start > range_end THEN Raised(RangeError)
    ELSE IF schedule.amount <= 0 THEN Raised(AmountError)
    ELSE LET normalized_frequency == _validate_frequency(schedule.frequency)
         IN  IF normalized_frequency.raised THEN normalized_frequency
             ELSE LET normalized_kind == _validate_kind(schedule.kind)
                  IN  IF normalized_kind.raised THEN normalized_kind
                      ELSE Returned(<<normalized_frequency.value, normalized_kind.value>>)

\* A local variable that is not bound.
Unbound == <<"unbound">>

\* Line 127: projections = []
NewProjections == <<>>

\* Lines 108-128: the locals of _project_schedule when the loop is entered.
SetupFrame(schedule, range_start, normalized_frequency, normalized_kind, existing_index) ==
    LET excluded_dates ==
            _excluded_dates_for_schedule(schedule, normalized_kind, existing_index)
        calendar == normalized_frequency \in {S_monthly, S_yearly}
        first == IF normalized_frequency = S_monthly
                 THEN _first_monthly_on_or_after(schedule.start_date, range_start)
                 ELSE _first_yearly_on_or_after(schedule.start_date, range_start)
        interval == IF normalized_frequency = S_weekly THEN WEEKLY_DAYS ELSE BIWEEKLY_DAYS
    IN  [normalized_frequency |-> normalized_frequency,
         normalized_kind |-> normalized_kind,
         excluded_dates |-> excluded_dates,
         month_offset |-> IF calendar THEN first[2] ELSE Unbound,
         month_increment |->
             IF calendar
             THEN (IF normalized_frequency = S_monthly THEN 1 ELSE 12)
             ELSE Unbound,
         interval |-> IF calendar THEN Unbound ELSE interval,
         transaction_type |-> KIND_TO_PROJECTION[normalized_kind][1],
         is_investment |-> KIND_TO_PROJECTION[normalized_kind][2],
         projections |-> NewProjections,
         current_date |->
             IF calendar THEN first[1]
             ELSE _first_occurrence_on_or_after(
                      schedule.start_date, range_start, interval),
         visited |-> <<>>]

ProjectedEntry(date, amount, account_id, transaction_type, is_investment, notes) ==
    [date |-> date,
     amount |-> amount,
     account_id |-> account_id,
     transaction_type |-> transaction_type,
     is_investment |-> is_investment,
     source |-> S_projected,
     notes |-> notes]

\* projections.insert(0, entry) in place of append.
PrependEntry(projections, entry) == <<entry>> \o projections

\* Lines 131-140: projections.append(ProjectedEntry(...))
AppendEntry(projections, entry) == Append(projections, entry)

\* The step taken from the current date, so that a clamped day persists.
AdvanceFromCurrent(schedule, f) ==
    IF f.normalized_frequency \in {S_monthly, S_yearly}
    THEN <<_add_months(f.current_date, f.month_increment, DayOf(f.current_date)),
           f.month_offset + f.month_increment>>
    ELSE <<f.current_date + f.interval, f.month_offset>>

\* Lines 141-147: the next value of (current_date, month_offset).
Advance(schedule, f) ==
    IF f.normalized_frequency \in {S_monthly, S_yearly}
    THEN <<_add_months(schedule.start_date,
                       f.month_offset + f.month_increment,
                       DayOf(schedule.start_date)),
           f.month_offset + f.month_increment>>
    ELSE <<f.current_date + f.interval, f.month_offset>>

\* Lines 130-147: one iteration of the while loop.  visited records the
\* dates the loop has been entered with (it is no variable of the code).
LoopBody(schedule, f) ==
    LET next == Advance(schedule, f)
    IN  [f EXCEPT
            !.projections =
                IF f.current_date \notin f.excluded_dates
                THEN AppendEntry(f.projections,
                         ProjectedEntry(f.current_date,
                                        _coerce_amount(schedule.amount),
                                        schedule.account_id,
                                        f.transaction_type,
                                        f.is_investment,
                                        schedule.notes))
                ELSE f.projections,
            !.current_date = next[1],
            !.month_offset = next[2],
            !.visited = Append(f.visited, f.current_date)]

\* Lines 129-149: the loop, run to its end.
RECURSIVE RunLoop(_, _, _)
RunLoop(schedule, range_end, f) ==
    IF f.current_date <= range_end
    THEN RunLoop(schedule, range_end, LoopBody(schedule, f))
    ELSE f

\* A date beyond date.max cannot be built: lines 111-124 and 143-147 raise
\* in place of binding first_date or current_date to it.
OutOfRange(d) == d > date_max

\* What the date arithmetic of a frequency raises beyond date.max: date(...)
\* in _add_months a ValueError, date + timedelta an OverflowError.
DateError(normalized_frequency) ==
    IF normalized_frequency \in {S_monthly, S_yearly}
    THEN Raised(YearRangeError)
    ELSE Raised(DateOverflowError)

\* range_end is a date, so that the loop of RunLoop ends on a date beyond
\* date.max as well: the code raises on computing it.
_project_schedule(schedule, range_start, range_end, existing_index, check_range) ==
    LET v == ValidateSchedule(schedule, range_start, range_end, check_range)
    IN  IF v.raised THEN v
        ELSE LET f == RunLoop(schedule, range_end,
                          SetupFrame(schedule, range_start, v.value[1], v.value[2],
                                     existing_index))
             IN  IF OutOfRange(f.current_date)
                 THEN DateError(f.normalized_frequency)
                 ELSE Returned(f.projections)

project_recurring_schedule(schedule, range_start, range_end, existing_transactions) ==
    _project_schedule(schedule, range_start, range_end,
                      _index_existing_transactions(existing_transactions), TRUE)

\* The list replaced by the new entries, in place of extended.
ExtendReplaces(list, more) == more

\* Line 82: projections.extend(more)
Extend(list, more) == list \o more

\* Lines 80-91: the for loop of project_recurring_schedules from schedule k on.
RECURSIVE BatchFrom(_, _, _, _, _, _)
BatchFrom(schedules, k, range_start, range_end, existing_index, projections) ==
    IF k > Len(schedules) THEN Returned(projections)
    ELSE LET r == _project_schedule(schedules[k], range_start, range_end,
                                    existing_index, FALSE)
         IN  IF r.raised THEN r
             ELSE BatchFrom(schedules, k + 1, range_start, range_end,
                            existing_index, Extend(projections, r.value))

project_recurring_schedules(schedules, range_start, range_end, existing_transactions) ==
    IF range_start > range_end THEN Raised(RangeError)
    ELSE BatchFrom(schedules, 1, range_start, range_end,
                   _index_existing_transactions(existing_transactions), <<>>)

(***************************************************************************)
(* income_projection.py: the older project_income.  Its helpers            *)
(* _normalize_frequency, _first_occurrence_on_or_after,                    *)
(* _first_monthly_on_or_after, _add_months and _coerce_amount (lines       *)
(* 91-124 and 133-136) are the same text as those of                       *)
(* recurring_projection.py and are not defined twice.                      *)
(***************************************************************************)
INCOME_SUPPORTED_FREQUENCIES == {S_weekly, S_biweekly, S_monthly}
IncomeFrequencyError == "Only weekly, biweekly, or monthly schedules are supported."

\* _validate_frequency of income_projection.py without the byweekly alias.
income_validate_frequency_no_alias(frequency) ==
    LET normalized == _normalize_frequency(frequency)
    IN  IF normalized \notin INCOME_SUPPORTED_FREQUENCIES
        THEN Raised(IncomeFrequencyError)
        ELSE Returned(normalized)

\* _validate_frequency of income_projection.py.
income_validate_frequency(frequency) ==
    LET normalized == _normalize_frequency(frequency)
        aliased == IF normalized = S_byweekly THEN S_biweekly ELSE normalized
    IN  IF aliased \notin INCOME_SUPPORTED_FREQUENCIES
        THEN Raised(IncomeFrequencyError)
        ELSE Returned(aliased)

_collect_existing_dates(existing_income) ==
    {existing_income[k].date : k \in 1..Len(existing_income)}

ProjectedIncome(date, amount, account_id) ==
    [date |-> date, amount |-> amount, account_id |-> account_id,
     source |-> S_projected]

\* Lines 43-47: the checks of project_income.
ValidatePaySchedule(schedule, range_start, range_end) ==
    IF range_start > range_end THEN Raised(RangeError)
    ELSE IF schedule.amount <= 0 THEN Raised(AmountError)
    ELSE income_validate_frequency(schedule.frequency)

\* Lines 49-61 with only the income of the schedule's account excluded.
IncomeSetupFrameOwnAccount(schedule, range_start, normalized_frequency, existing_income) ==
    LET monthly == normalized_frequency = S_monthly
        first == _first_monthly_on_or_after(schedule.start_date, range_start)
        interval == IF normalized_frequency = S_weekly THEN WEEKLY_DAYS ELSE BIWEEKLY_DAYS
    IN  [normalized_frequency |-> normalized_frequency,
         excluded_dates |->
             _collect_existing_dates(
                 SelectSeq(existing_income,
                           LAMBDA txn : txn.account_id = schedule.account_id)),
         month_offset |-> IF monthly THEN first[2] ELSE Unbound,
         interval |-> IF monthly THEN Unbound ELSE interval,
         projections |-> NewProjections,
         current_date |->
             IF monthly THEN first[1]
             ELSE _first_occurrence_on_or_after(
                      schedule.start_date, range_start, interval)]

\* Lines 49-61: the locals of project_income when the loop is entered.
IncomeSetupFrame(schedule, range_start, normalized_frequency, existing_income) ==
    LET monthly == normalized_frequency = S_monthly
        first == _first_monthly_on_or_after(schedule.start_date, range_start)
        interval == IF normalized_frequency = S_weekly THEN WEEKLY_DAYS ELSE BIWEEKLY_DAYS
    IN  [normalized_frequency |-> normalized_frequency,
         excluded_dates |-> _collect_existing_dates(existing_income),
         month_offset |-> IF monthly THEN first[2] ELSE Unbound,
         interval |-> IF monthly THEN Unbound ELSE interval,
         projections |-> NewProjections,
         current_date |->
             IF monthly THEN first[1]
             ELSE _first_occurrence_on_or_after(
                      schedule.start_date, range_start, interval)]

\* Lines 63-77: one iteration of the while loop of project_income.
IncomeLoopBody(schedule, f) ==
    LET monthly == f.normalized_frequency = S_monthly
    IN  [f EXCEPT
            !.projections =
                IF f.current_date \notin f.excluded_dates
                THEN Append(f.projections,
                            ProjectedIncome(f.current_date,
                                            _coerce_amount(schedule.amount),
                                            schedule.account_id))
                ELSE f.projections,
            !.month_offset = IF monthly THEN f.month_offset + 1 ELSE f.month_offset,
            !.current_date =
                IF monthly
                THEN _add_months(schedule.start_date, f.month_offset + 1,
                                 DayOf(schedule.start_date))
                ELSE f.current_date + f.interval]

\* Lines 62-79: the loop, run to its end.
RECURSIVE IncomeRunLoop(_, _, _)
IncomeRunLoop(schedule, range_end, f) ==
    IF f.current_date <= range_end
    THEN IncomeRunLoop(schedule, range_end, IncomeLoopBody(schedule, f))
    ELSE f

project_income(schedule, range_start, range_end, existing_income) ==
    LET v == ValidatePaySchedule(schedule, range_start, range_end)
    IN  IF v.raised THEN v
        ELSE LET f == IncomeRunLoop(schedule, range_end,
                          IncomeSetupFrame(schedule, range_start, v.value,
                                           existing_income))
             IN  IF OutOfRange(f.current_date)
                 THEN DateError(f.normalized_frequency)
                 ELSE Returned(f.projections)

(***************************************************************************)
(* The inputs.                                                             *)
(***************************************************************************)
RecurringSchedule(amount, start_date, account_id, frequency, kind, notes) ==
    [amount |-> amount,
     start_date |-> start_date,
     account_id |-> account_id,
     currency |-> None,
     frequency |-> frequency,
     kind |-> kind,
     category_id |-> None,
     notes |-> notes]

PaySchedule(amount, start_date, account_id, frequency) ==
    [amount |-> amount,
     start_date |-> start_date,
     account_id |-> account_id,
     frequency |-> frequency]

IncomeTransaction(date, amount, account_id) ==
    [date |-> date, amount |-> amount, account_id |-> account_id]

ActualTransaction(date, account_id, type) ==
    [date |-> date, account_id |-> account_id, type |-> type]

Call(op, schedules, range_start, range_end, existing_transactions) ==
    [op |-> op,
     schedules |-> schedules,
     range_start |-> range_start,
     range_end |-> range_end,
     existing_transactions |-> existing_transactions]

RECURSIVE SeqsUpTo(_, _)
\* The sequences over S of length at most n.
SeqsUpTo(S, n) ==
    IF n = 0 THEN {<<>>}
    ELSE LET shorter == SeqsUpTo(S, n - 1)
         IN  shorter \cup {Append(q, x) : q \in shorter, x \in S}

Jan1 == Date(2024, 1, 1)
Jan5 == Date(2024, 1, 5)
Jan19 == Date(2024, 1, 19)
Jan31 == Date(2024, 1, 31)
Feb2 == Date(2024, 2, 2)
Feb15 == Date(2024, 2, 15)
Feb29 == Date(2024, 2, 29)

\* Raw strings as a caller may pass them.
S_Income_padded == <<" ", "I", "n", "c", "o", "m", "e", " ">>
S_Expense_padded == <<" ", "E", "x", "p", "e", "n", "s", "e">>
S_in_come == <<"i", "n", "-", "c", "o", "m", "e">>
S_Bi_Weekly == <<"B", "i", "-", "W", "e", "e", "k", "l", "y">>
S_Weekly_padded == <<" ", "W", "e", "e", "k", "l", "y", " ">>
S_month_ly == <<"m", "o", "n", "t", "h", "_", "l", "y">>
S_quarterly == <<"q", "u", "a", "r", "t", "e", "r", "l", "y">>
S_weekly2 == <<"w", "e", "e", "k", "l", "y", "2">>
S_note == <<"r", "e", "n", "t">>

RawFrequencies ==
    {S_weekly, S_Weekly_padded, S_biweekly, S_Bi_Weekly, S_byweekly,
     S_monthly, S_month_ly, S_yearly, S_quarterly, S_weekly2, <<>>}
RawKinds ==
    {S_income, S_Income_padded, S_expense, S_Expense_padded, S_investment,
     S_in_come, <<>>}
Amounts == {-1, 0, 1500}

\* Interval frequencies: every window of days in
\* [2023-12-31, 2024-01-01 + IntervalSpan], also the degenerate ones.
IntervalCases ==
    {Call("single",
          <<RecurringSchedule(1500, Jan5, 10, frequency, S_income, None)>>,
          range_start, range_end, existing_transactions) :
        frequency \in {S_weekly, S_biweekly},
        range_start \in Jan1..(Jan1 + IntervalSpan),
        range_end \in (Jan1 - 1)..(Jan1 + IntervalSpan),
        existing_transactions \in
            {<<>>, <<ActualTransaction(Jan19, 10, S_income)>>}}

\* Calendar frequencies: windows between month edges of 2024 and the ends
\* of February of the following years.
CalendarDates ==
    {Date(2023, 12, 1)}
    \cup {Date(2024, m, 1) : m \in 1..5}
    \cup {Date(2024, m, DaysInMonth(2024, m)) : m \in 1..5}
    \cup {Date(2024, m, 30) : m \in {1, 3, 4}}
    \cup {Date(2024 + y, 2, 28) : y \in 1..MaxYears}
    \cup {Date(2024 + y, 2, DaysInMonth(2024 + y, 2)) : y \in 1..MaxYears}
    \cup {Date(2024 + y, 3, 1) : y \in 1..MaxYears}

CalendarCases ==
    {Call("single",
          <<RecurringSchedule(1500, start_date, 10, frequency, S_expense, S_note)>>,
          range_start, range_end, existing_transactions) :
        frequency \in {S_monthly, S_yearly},
        start_date \in {Jan31, Feb29, Date(2023, 11, 30)},
        range_start \in CalendarDates,
        range_end \in CalendarDates,
        existing_transactions \in
            {<<>>, <<ActualTransaction(Feb29, 10, S_expense)>>}}

\* Snapshots: every sequence of at most MaxTxns transactions of the pool,
\* against a biweekly schedule of each kind.
TxnPool ==
    {ActualTransaction(Jan19, 10, S_income),
     ActualTransaction(Jan19, 10, S_Income_padded),
     ActualTransaction(Jan19, 10, S_expense),
     ActualTransaction(Jan19, 10, S_investment),
     ActualTransaction(Jan19, 9, S_income),
     ActualTransaction(Feb2, 10, S_income)}

SnapshotCases ==
    {Call("single",
          <<RecurringSchedule(1500, Jan5, 10, S_biweekly, kind, None)>>,
          Jan1, Feb15, existing_transactions) :
        kind \in {S_income, S_Expense_padded, S_investment},
        existing_transactions \in SeqsUpTo(TxnPool, MaxTxns)}

\* Validation: every combination of amount, raw frequency and raw kind,
\* over a valid and a degenerate window.
ValidationCases ==
    {Call("single",
          <<RecurringSchedule(amount, Jan5, 10, frequency, kind, None)>>,
          w[1], w[2], <<ActualTransaction(Jan19, 10, S_income)>>) :
        amount \in Amounts,
        frequency \in RawFrequencies,
        kind \in RawKinds,
        w \in {<<Jan1, Feb15>>, <<Feb15, Jan1>>}}

\* Batches: every sequence of at most MaxSchedules schedules of the pool.
SchedulePool ==
    {RecurringSchedule(1500, Jan5, 10, S_biweekly, S_income, None),
     RecurringSchedule(500, Jan5, 10, S_Bi_Weekly, S_investment, S_note),
     RecurringSchedule(900, Jan31, 9, S_monthly, S_expense, None),
     RecurringSchedule(0, Jan5, 10, S_weekly, S_income, None),
     RecurringSchedule(1500, Jan5, 10, S_quarterly, S_income, None),
     RecurringSchedule(1500, Jan5, 10, S_weekly, S_in_come, None)}

BatchCases ==
    {Call("batch", schedules, w[1], w[2], existing_transactions) :
        schedules \in SeqsUpTo(SchedulePool, MaxSchedules),
        w \in {<<Jan1, Feb15>>, <<Jan19, Jan19>>, <<Feb15, Jan1>>},
        existing_transactions \in
            {<<>>,
             <<ActualTransaction(Jan19, 10, S_income)>>,
             <<ActualTransaction(Jan19, 10, S_investment),
               ActualTransaction(Feb29, 9, S_expense)>>}}

\* _project_schedule called with check_range=False, as
\* project_recurring_schedules calls it, but over any window: the schedule,
\* the window and the index built from the snapshot are its arguments.
GeneratorCases ==
    {Call("_project_schedule",
          <<RecurringSchedule(1500, start_date, 10, frequency, S_income, None)>>,
          w[1], w[2], <<ActualTransaction(Jan19, 10, S_income)>>) :
        frequency \in SUPPORTED_FREQUENCIES,
        start_date \in {Jan5, Jan31, Feb29, Date(2023, 11, 30)},
        w \in {<<Feb15, Jan1>>, <<Jan19, Jan5>>, <<Jan5, Jan1>>,
               <<Date(2025, 3, 1), Feb29>>, <<Jan1, Feb15>>}}

\* project_income: the frequencies it accepts and two it refuses, over
\* valid and degenerate windows, with income of its own and of another
\* account.
IncomeCases ==
    {Call("income",
          <<PaySchedule(amount, start_date, 10, frequency)>>,
          w[1], w[2], existing_income) :
        amount \in {0, 1500},
        start_date \in {Jan5, Jan31},
        frequency \in {S_weekly, S_Bi_Weekly, S_byweekly, S_monthly, S_yearly,
                       S_quarterly},
        w \in {<<Jan1, Feb15>>, <<Jan19, Date(2024, 4, 30)>>, <<Jan19, Jan19>>,
               <<Feb15, Jan1>>},
        existing_income \in
            {<<>>,
             <<IncomeTransaction(Jan19, 1500, 10)>>,
             <<IncomeTransaction(Jan19, 20, 9)>>,
             <<IncomeTransaction(Feb29, 1500, 10),
               IncomeTransaction(Jan19, 20, 10)>>}}

\* Windows that begin ten years before start_date.
EarlyWindowCases ==
    {Call("single",
          <<RecurringSchedule(1500, start_date, 10, frequency, S_income, None)>>,
          Date(2014, 1, 1), range_end, <<>>) :
        frequency \in SUPPORTED_FREQUENCIES,
        start_date \in {Jan19, Feb29},
        range_end \in {Jan31, Date(2025, 3, 1)}}

\* Windows that end in the last days of date.max's year.
HorizonSchedules ==
    {RecurringSchedule(1500, Date(MAXYEAR, 12, 20), 10, S_weekly, S_income, None),
     RecurringSchedule(1500, Date(MAXYEAR, 12, 6), 10, S_biweekly, S_income, None),
     RecurringSchedule(1500, Date(MAXYEAR, 10, 31), 10, S_monthly, S_income, None),
     RecurringSchedule(1500, Date(MAXYEAR - 1, 2, 28), 10, S_yearly, S_income, None)}

HorizonCases ==
    {Call("single", <<schedule>>, range_start, range_end, existing_transactions) :
        schedule \in HorizonSchedules,
        range_start \in {Date(MAXYEAR, 12, 1), Date(MAXYEAR, 12, 28)},
        range_end \in {Date(MAXYEAR, 12, 26), date_max},
        existing_transactions \in
            {<<>>, <<ActualTransaction(Date(MAXYEAR, 12, 20), 10, S_income)>>}}
    \cup
    {Call("income", <<PaySchedule(1500, Date(MAXYEAR, 12, 20), 10, frequency)>>,
          range_start, date_max, <<>>) :
        frequency \in {S_weekly, S_monthly},
        range_start \in {Date(MAXYEAR, 12, 1), Date(MAXYEAR, 12, 28)}}

\* Windows to be cut in two: each frequency, month-end and 29 February
\* anchors, a suppressed occurrence, the last days of date.max's year and an
\* invalid schedule.
AdjacentCases ==
    {Call("single",
          <<RecurringSchedule(1500, Jan5, 10, frequency, S_income, None)>>,
          range_start, range_end, existing_transactions) :
        frequency \in {S_weekly, S_biweekly},
        range_start \in {Jan1, Jan5, Jan19 + 1},
        range_end \in {Feb15, Jan1 + IntervalSpan},
        existing_transactions \in
            {<<>>, <<ActualTransaction(Jan19, 10, S_income)>>}}
    \cup
    {Call("single",
          <<RecurringSchedule(900, start_date, 10, S_monthly, S_expense, S_note)>>,
          range_start, range_end, existing_transactions) :
        start_date \in {Jan31, Date(2023, 11, 30)},
        range_start \in {Date(2023, 12, 1), Date(2024, 1, 30)},
        range_end \in {Date(2024, 4, 30), Date(2024, 5, 31)},
        existing_transactions \in
            {<<>>, <<ActualTransaction(Feb29, 10, S_expense)>>}}
    \cup
    {Call("single",
          <<RecurringSchedule(900, Feb29, 10, S_yearly, S_expense, S_note)>>,
          range_start, Date(2026, 3, 1), existing_transactions) :
        range_start \in {Jan1, Date(2024, 3, 1)},
        existing_transactions \in
            {<<>>, <<ActualTransaction(Date(2025, 2, 28), 10, S_expense)>>}}
    \cup
    {Call("single", <<schedule>>, Date(MAXYEAR, 12, 1), range_end, <<>>) :
        schedule \in HorizonSchedules,
        range_end \in {Date(MAXYEAR, 12, 26), date_max}}
    \cup
    {Call("single",
          <<RecurringSchedule(0, Jan5, 10, S_weekly, S_income, None)>>,
          Jan1, Jan19, <<>>)}

Cases ==
    IntervalCases \cup CalendarCases \cup SnapshotCases \cup ValidationCases
        \cup BatchCases \cup GeneratorCases \cup IncomeCases
        \cup EarlyWindowCases \cup HorizonCases

(***************************************************************************)
(* The state: the calls in progress, each with its own arguments and       *)
(* local variables.                                                        *)
(***************************************************************************)
VARIABLES
    args,               \* args[c]: the arguments of call c
    pc,                 \* pc[c]: the statement call c is at
    existing_index,     \* existing_index[c]: the index built from the snapshot
    position,           \* position[c]: the schedule of the batch under projection
    projections,        \* projections[c]: the list project_recurring_schedules extends
    frame,              \* frame[c]: the locals of _project_schedule
    outcome             \* outcome[c]: what the call returned or raised

vars == <<args, pc, existing_index, position, projections, frame, outcome>>

Calls == 1..NumCalls

NoArgs == Call("none", <<>>, Jan1, Jan1, <<>>)
NoFrame == [normalized_frequency |-> Unbound]
NoOutcome == [pending |-> TRUE]

FirstStatement(a) ==
    CASE a.op = "single" -> "single_index"
      [] a.op = "batch" -> "batch_range"
      [] a.op = "_project_schedule" -> "validate"
      [] a.op = "income" -> "income_validate"

\* The calls of `active` are entered with arguments `a`; the others never run.
InitWith(a, active) ==
    /\ args = [c \in Calls |-> IF c \in active THEN a[c] ELSE NoArgs]
    /\ pc = [c \in Calls |-> IF c \in active THEN FirstStatement(a[c]) ELSE "idle"]
    /\ existing_index =
           [c \in Calls |->
               IF c \in active /\ a[c].op = "_project_schedule"
               THEN _index_existing_transactions(a[c].existing_transactions)
               ELSE EmptyDict]
    /\ position =
           [c \in Calls |->
               IF c \in active /\ a[c].op = "_project_schedule" THEN 1 ELSE 0]
    /\ projections = [c \in Calls |-> <<>>]
    /\ frame = [c \in Calls |-> NoFrame]
    /\ outcome = [c \in Calls |-> NoOutcome]

\* One call.
Init == \E a \in Cases : InitWith([c \in Calls |-> a], {1})

(***************************************************************************)
(* The steps of a call.                                                    *)
(***************************************************************************)
\* The schedule that call c is projecting.
CurrentSchedule(c) == args[c].schedules[position[c]]

\* The index kept in one place for all calls: that of the first call.
IndexOfFirstCall(c) == existing_index[1]

\* The index that _project_schedule is handed in call c.
IndexOfCall(c) == existing_index[c]

\* One list object for all calls: that of another call in its loop, if any.
ListOfAnotherCall(c) ==
    LET others == {d \in Calls \ {c} : "projections" \in DOMAIN frame[d]}
    IN  IF others = {} THEN frame[c].projections
        ELSE frame[CHOOSE d \in others : TRUE].projections

\* The list that _project_schedule appends to in call c.
ListOfCall(c) == frame[c].projections

\* The ValueError caught in the batch and the entries so far returned.
PartialOnFailure(c, v) ==
    IF args[c].op = "batch" THEN Returned(projections[c]) ELSE v

\* Lines 63 and 82-90: a ValueError raised by _project_schedule is caught by
\* neither caller, so it is the outcome of the call.
Propagate(c, v) == v

Finish(c, result) ==
    /\ outcome' = [outcome EXCEPT ![c] = result]
    /\ pc' = [pc EXCEPT ![c] = "done"]

\* project_recurring_schedule, line 62.
SingleIndex(c) ==
    /\ pc[c] = "single_index"
    /\ existing_index' =
           [existing_index EXCEPT
               ![c] = _index_existing_transactions(args[c].existing_transactions)]
    /\ position' = [position EXCEPT ![c] = 1]
    /\ pc' = [pc EXCEPT ![c] = "validate"]
    /\ UNCHANGED <<args, projections, frame, outcome>>

\* The window of a batch left unchecked.
BatchCheckRangeSkipped(c) ==
    /\ pc[c] = "batch_range"
    /\ pc' = [pc EXCEPT ![c] = "batch_index"]
    /\ UNCHANGED <<args, existing_index, position, projections, frame, outcome>>

\* project_recurring_schedules, lines 77-78.
BatchCheckRange(c) ==
    /\ pc[c] = "batch_range"
    /\ IF args[c].range_start > args[c].range_end
       THEN Finish(c, Raised(RangeError))
       ELSE /\ pc' = [pc EXCEPT ![c] = "batch_index"]
            /\ UNCHANGED outcome
    /\ UNCHANGED <<args, existing_index, position, projections, frame>>

\* project_recurring_schedules, lines 79-80.
BatchIndex(c) ==
    /\ pc[c] = "batch_index"
    /\ existing_index' =
           [existing_index EXCEPT
               ![c] = _index_existing_transactions(args[c].existing_transactions)]
    /\ projections' = [projections EXCEPT ![c] = <<>>]
    /\ pc' = [pc EXCEPT ![c] = "batch_for"]
    /\ UNCHANGED <<args, position, frame, outcome>>

\* project_recurring_schedules, lines 81 and 91: the next schedule, or the
\* return of the list.
BatchFor(c) ==
    /\ pc[c] = "batch_for"
    /\ IF position[c] < Len(args[c].schedules)
       THEN /\ position' = [position EXCEPT ![c] = position[c] + 1]
            /\ pc' = [pc EXCEPT ![c] = "validate"]
            /\ UNCHANGED outcome
       ELSE /\ Finish(c, Returned(projections[c]))
            /\ UNCHANGED position
    /\ UNCHANGED <<args, existing_index, projections, frame>>

\* _project_schedule, lines 101-106.
Validate(c) ==
    /\ pc[c] = "validate"
    /\ LET v == ValidateSchedule(CurrentSchedule(c), args[c].range_start,
                                 args[c].range_end, args[c].op = "single")
       IN  IF v.raised
           THEN /\ Finish(c, Propagate(c, v))
                /\ UNCHANGED frame
           ELSE /\ frame' = [frame EXCEPT
                                ![c] = [normalized_frequency |-> v.value[1],
                                        normalized_kind |-> v.value[2]]]
                /\ pc' = [pc EXCEPT ![c] = "setup"]
                /\ UNCHANGED outcome
    /\ UNCHANGED <<args, existing_index, position, projections>>

\* _project_schedule, lines 108-128.
Setup(c) ==
    /\ pc[c] = "setup"
    /\ LET f == SetupFrame(CurrentSchedule(c), args[c].range_start,
                           frame[c].normalized_frequency,
                           frame[c].normalized_kind,
                           IndexOfCall(c))
       IN  IF OutOfRange(f.current_date)
           THEN /\ Finish(c, Propagate(c, DateError(f.normalized_frequency)))
                /\ frame' = [frame EXCEPT ![c] = NoFrame]
           ELSE /\ frame' = [frame EXCEPT ![c] = f]
                /\ pc' = [pc EXCEPT ![c] = "loop"]
                /\ UNCHANGED outcome
    /\ existing_index' =
           [existing_index EXCEPT
               ![c] = IndexAfterLookup(CurrentSchedule(c), frame[c].normalized_kind,
                                       existing_index[c])]
    /\ UNCHANGED <<args, position, projections>>

\* The loop condition tested after the body: a do-while.
LoopIterAtLeastOnce(c) ==
    /\ pc[c] = "loop"
    /\ frame[c].current_date <= args[c].range_end \/ frame[c].visited = <<>>
    /\ frame' = [frame EXCEPT
                    ![c] = LoopBody(CurrentSchedule(c),
                                    [frame[c] EXCEPT !.projections = ListOfCall(c)])]
    /\ UNCHANGED <<args, pc, existing_index, position, projections, outcome>>

\* _project_schedule, lines 129-147: the loop condition holds, one iteration.
LoopIter(c) ==
    /\ pc[c] = "loop"
    /\ frame[c].current_date <= args[c].range_end
    /\ LET f == LoopBody(CurrentSchedule(c),
                         [frame[c] EXCEPT !.projections = ListOfCall(c)])
       IN  IF OutOfRange(f.current_date)
           THEN /\ Finish(c, Propagate(c, DateError(f.normalized_frequency)))
                /\ frame' = [frame EXCEPT ![c] = NoFrame]
           ELSE /\ frame' = [frame EXCEPT ![c] = f]
                /\ UNCHANGED <<pc, outcome>>
    /\ UNCHANGED <<args, existing_index, position, projections>>

\* _project_schedule, lines 129 and 149: the loop condition fails, the list
\* is returned and the locals are gone; project_recurring_schedules extends
\* its own list with it (line 82).
LoopExit(c) ==
    /\ pc[c] = "loop"
    /\ frame[c].current_date > args[c].range_end
    /\ IF args[c].op # "batch"
       THEN /\ Finish(c, Returned(frame[c].projections))
            /\ UNCHANGED projections
       ELSE /\ projections' =
                   [projections EXCEPT ![c] = Extend(projections[c], frame[c].projections)]
            /\ pc' = [pc EXCEPT ![c] = "batch_for"]
            /\ UNCHANGED outcome
    /\ frame' = [frame EXCEPT ![c] = NoFrame]
    /\ UNCHANGED <<args, existing_index, position>>

\* project_income, lines 43-47.
IncomeValidate(c) ==
    /\ pc[c] = "income_validate"
    /\ LET v == ValidatePaySchedule(args[c].schedules[1], args[c].range_start,
                                    args[c].range_end)
       IN  IF v.raised
           THEN /\ Finish(c, v)
                /\ UNCHANGED frame
           ELSE /\ frame' = [frame EXCEPT ![c] = [normalized_frequency |-> v.value]]
                /\ pc' = [pc EXCEPT ![c] = "income_setup"]
                /\ UNCHANGED outcome
    /\ UNCHANGED <<args, existing_index, position, projections>>

\* project_income, lines 49-61.
IncomeSetup(c) ==
    /\ pc[c] = "income_setup"
    /\ LET f == IncomeSetupFrame(args[c].schedules[1], args[c].range_start,
                                 frame[c].normalized_frequency,
                                 args[c].existing_transactions)
       IN  IF OutOfRange(f.current_date)
           THEN /\ Finish(c, DateError(f.normalized_frequency))
                /\ frame' = [frame EXCEPT ![c] = NoFrame]
           ELSE /\ frame' = [frame EXCEPT ![c] = f]
                /\ pc' = [pc EXCEPT ![c] = "income_loop"]
                /\ UNCHANGED outcome
    /\ UNCHANGED <<args, existing_index, position, projections>>

\* project_income, lines 62-77: the loop condition holds, one iteration.
IncomeLoopIter(c) ==
    /\ pc[c] = "income_loop"
    /\ frame[c].current_date <= args[c].range_end
    /\ LET f == IncomeLoopBody(args[c].schedules[1], frame[c])
       IN  IF OutOfRange(f.current_date)
           THEN /\ Finish(c, DateError(f.normalized_frequency))
                /\ frame' = [frame EXCEPT ![c] = NoFrame]
           ELSE /\ frame' = [frame EXCEPT ![c] = f]
                /\ UNCHANGED <<pc, outcome>>
    /\ UNCHANGED <<args, existing_index, position, projections>>

\* project_income, lines 62 and 79: the loop condition fails, the list is
\* returned.
IncomeLoopExit(c) ==
    /\ pc[c] = "income_loop"
    /\ frame[c].current_date > args[c].range_end
    /\ Finish(c, Returned(frame[c].projections))
    /\ frame' = [frame EXCEPT ![c] = NoFrame]
    /\ UNCHANGED <<args, existing_index, position, projections>>

Step(c) ==
    \/ SingleIndex(c)
    \/ BatchCheckRange(c)
    \/ BatchIndex(c)
    \/ BatchFor(c)
    \/ Validate(c)
    \/ Setup(c)
    \/ LoopIter(c)
    \/ LoopExit(c)
    \/ IncomeValidate(c)
    \/ IncomeSetup(c)
    \/ IncomeLoopIter(c)
    \/ IncomeLoopExit(c)

Next == \E c \in Calls : Step(c)

\* Calls in progress at once, each with arguments of its own.
ConcurrentCases ==
    {Call("single",
          <<RecurringSchedule(1500, Jan5, 10, S_biweekly, S_income, None)>>,
          Jan1, Feb15, <<ActualTransaction(Jan19, 10, S_income)>>),
     Call("single",
          <<RecurringSchedule(1500, Jan5, 10, S_biweekly, S_income, None)>>,
          Jan1, Feb15, <<>>),
     Call("single",
          <<RecurringSchedule(900, Jan31, 10, S_monthly, S_expense, S_note)>>,
          Jan19, Date(2024, 3, 31), <<ActualTransaction(Feb29, 10, S_Expense_padded)>>),
     Call("single",
          <<RecurringSchedule(1500, Jan5, 10, S_quarterly, S_income, None)>>,
          Jan1, Feb15, <<>>),
     Call("batch",
          <<RecurringSchedule(500, Jan5, 10, S_Bi_Weekly, S_investment, S_note),
            RecurringSchedule(1500, Jan5, 10, S_weekly, S_income, None)>>,
          Jan1, Jan19, <<ActualTransaction(Jan19, 10, S_investment)>>),
     Call("income",
          <<PaySchedule(1500, Jan5, 10, S_weekly)>>,
          Jan1, Jan5, <<IncomeTransaction(Jan19, 1500, 9)>>)}

InitConcurrent == \E a \in [Calls -> ConcurrentCases] : InitWith(a, Calls)

\* One call over a window to be cut in two, or one of the calls of
\* ConcurrentCases.
InitAdjacent ==
    \E a \in AdjacentCases \cup ConcurrentCases : InitWith([c \in Calls |-> a], {1})

SpecAdjacent == InitAdjacent /\ [][Next]_vars

SpecConcurrent == InitConcurrent /\ [][Next]_vars

Spec == Init /\ [][Next]_vars

(***************************************************************************)
(* What the properties speak of.                                           *)
(***************************************************************************)
IsSingle(c) == args[c].op = "single"
IsBatch(c) == args[c].op = "batch"
HasReturned(c) == pc[c] = "done" /\ ~outcome[c].raised
HasRaised(c) == pc[c] = "done" /\ outcome[c].raised
\* The locals of the loop of call c are bound.
InLoop(c) == "visited" \in DOMAIN frame[c]

TheSchedule(c) == args[c].schedules[1]
\* The frequency of a schedule that passes validation.
FrequencyOf(schedule) == _validate_frequency(schedule.frequency).value
ReturnedDates(c) == {outcome[c].value[k].date : k \in 1..Len(outcome[c].value)}

\* Section 3 of the specification: the actual types that suppress a kind.
SuppressingTypes(kind) ==
    CASE kind = S_income -> {S_income}
      [] kind = S_expense -> {S_expense}
      [] kind = S_investment -> {S_investment}
      [] OTHER -> {}

\* The dates of the snapshot's transactions that match a schedule.
MatchingDates(schedule, existing_transactions) ==
    {existing_transactions[k].date :
        k \in {j \in 1..Len(existing_transactions) :
                  /\ existing_transactions[j].account_id = schedule.account_id
                  /\ Lower(Strip(existing_transactions[j].type))
                         \in SuppressingTypes(Lower(Strip(schedule.kind)))}}

\* Section 4.2 of the specification: the date n months after start_date,
\* with start_date's day clamped to the length of that month.
ClampedOccurrence(start_date, n) ==
    LET months == YearOf(start_date) * 12 + (MonthOf(start_date) - 1) + n
        y == months \div 12
        m == (months % 12) + 1
    IN  Date(y, m, Min(DayOf(start_date), DaysInMonth(y, m)))

\* The n-th occurrence of a schedule, n >= 0.
Occurrence(start_date, frequency, n) ==
    CASE frequency = S_weekly -> start_date + 7 * n
      [] frequency = S_biweekly -> start_date + 14 * n
      [] frequency = S_monthly -> ClampedOccurrence(start_date, n)
      [] frequency = S_yearly -> ClampedOccurrence(start_date, 12 * n)

\* The occurrences of a schedule in [range_start, range_end]: periods are
\* at least 7 days long, so none lies beyond the index taken here.
OccurrencesInWindow(start_date, frequency, range_start, range_end) ==
    IF range_end < start_date THEN {}
    ELSE {d \in {Occurrence(start_date, frequency, n) :
                    n \in 0..((range_end - start_date) \div 7)} :
             range_start <= d /\ d <= range_end}

(***************************************************************************)
(* C1: every date that project_recurring_schedule returns lies in          *)
(* [range_start, range_end].                                               *)
(***************************************************************************)
WindowContainment ==
    \A c \in Calls :
        IsSingle(c) /\ HasReturned(c) =>
            \A d \in ReturnedDates(c) :
                args[c].range_start <= d /\ d <= args[c].range_end

\* A list of two entries or more is returned for a window that opens after
\* start_date.
WindowContainmentWitness ==
    \E c \in Calls :
        /\ IsSingle(c) /\ HasReturned(c)
        /\ Len(outcome[c].value) >= 2
        /\ TheSchedule(c).start_date < args[c].range_start

(***************************************************************************)
(* C2: no returned date is the date of an actual transaction of the        *)
(* schedule's account whose type, trimmed and lowercased, is an actual     *)
(* type of the schedule's kind.                                            *)
(***************************************************************************)
NoSuppressedDateReturned ==
    \A c \in Calls :
        IsSingle(c) /\ HasReturned(c) =>
            ReturnedDates(c)
                \cap MatchingDates(TheSchedule(c), args[c].existing_transactions) = {}

\* A list is returned although a transaction whose type is written with
\* capitals and spaces matches an occurrence of the window.
NoSuppressedDateReturnedWitness ==
    \E c \in Calls :
        /\ IsSingle(c) /\ HasReturned(c)
        /\ outcome[c].value # <<>>
        /\ \E k \in 1..Len(args[c].existing_transactions) :
               LET txn == args[c].existing_transactions[k]
               IN  /\ txn.type = S_Income_padded
                   /\ txn.account_id = TheSchedule(c).account_id
                   /\ TheSchedule(c).kind = S_income
                   /\ txn.date \in OccurrencesInWindow(
                          TheSchedule(c).start_date, FrequencyOf(TheSchedule(c)),
                          args[c].range_start, args[c].range_end)

(***************************************************************************)
(* C3: the returned dates are exactly the occurrences of the schedule in   *)
(* the window that no matching actual transaction suppresses.              *)
(***************************************************************************)
ExactlyUnsuppressedOccurrences ==
    \A c \in Calls :
        IsSingle(c) /\ HasReturned(c) =>
            ReturnedDates(c) =
                OccurrencesInWindow(TheSchedule(c).start_date,
                                    FrequencyOf(TheSchedule(c)),
                                    args[c].range_start, args[c].range_end)
                    \ MatchingDates(TheSchedule(c), args[c].existing_transactions)

\* An occurrence of the window is suppressed, the snapshot also holds a
\* transaction that does not match, and other occurrences are returned.
ExactlyUnsuppressedOccurrencesWitness ==
    \E c \in Calls :
        /\ IsSingle(c) /\ HasReturned(c)
        /\ Len(outcome[c].value) >= 2
        /\ OccurrencesInWindow(TheSchedule(c).start_date,
                               FrequencyOf(TheSchedule(c)),
                               args[c].range_start, args[c].range_end)
               \cap MatchingDates(TheSchedule(c), args[c].existing_transactions) # {}
        /\ \E k \in 1..Len(args[c].existing_transactions) :
               args[c].existing_transactions[k].account_id # TheSchedule(c).account_id

(***************************************************************************)
(* C4: a weekly or biweekly schedule visits only dates start_date + k *    *)
(* interval, k >= 0, each exactly one interval after the one before.       *)
(***************************************************************************)
\* The dates the loop has been entered with, and the one it holds now.
GeneratedDates(c) == Append(frame[c].visited, frame[c].current_date)

IntervalPhaseAlignment ==
    \A c \in Calls :
        InLoop(c) /\ frame[c].normalized_frequency \in {S_weekly, S_biweekly} =>
            LET days == IF frame[c].normalized_frequency = S_weekly THEN 7 ELSE 14
                start_date == CurrentSchedule(c).start_date
                g == GeneratedDates(c)
            IN  /\ \A k \in 1..Len(g) :
                       g[k] >= start_date /\ (g[k] - start_date) % days = 0
                /\ \A k \in 1..(Len(g) - 1) : g[k + 1] - g[k] = days

\* Two dates or more are visited in a window that opens strictly between
\* two occurrences.
IntervalPhaseAlignmentWitness ==
    \E c \in Calls :
        /\ InLoop(c) /\ frame[c].normalized_frequency = S_biweekly
        /\ Len(frame[c].visited) >= 2
        /\ args[c].range_start > CurrentSchedule(c).start_date
        /\ (args[c].range_start - CurrentSchedule(c).start_date) % 14 # 0

(***************************************************************************)
(* C5: the occurrence of a monthly schedule at period offset n lies in the *)
(* month n months after start_date's, on start_date's day clamped to that  *)
(* month's length, whatever the day of the occurrence before it.           *)
(***************************************************************************)
\* The period offset of the k-th of the generated dates.
OffsetOf(c, k) ==
    frame[c].month_offset
        - frame[c].month_increment * (Len(frame[c].visited) + 1 - k)

MonthlyClamping ==
    \A c \in Calls :
        InLoop(c) /\ frame[c].normalized_frequency = S_monthly =>
            LET start_date == CurrentSchedule(c).start_date
                g == GeneratedDates(c)
            IN  /\ \A k \in 1..Len(g) :
                       /\ OffsetOf(c, k) >= 0
                       /\ g[k] = ClampedOccurrence(start_date, OffsetOf(c, k))
                /\ start_date = Jan31 =>
                       \A k \in 1..Len(g) :
                           /\ OffsetOf(c, k) = 1 => g[k] = Date(2024, 2, 29)
                           /\ OffsetOf(c, k) = 2 => g[k] = Date(2024, 3, 31)
                           /\ OffsetOf(c, k) = 3 => g[k] = Date(2024, 4, 30)

\* A schedule that starts on 2024-01-31 has visited 29 February, 31 March
\* and 30 April.
MonthlyClampingWitness ==
    \E c \in Calls :
        /\ InLoop(c) /\ frame[c].normalized_frequency = S_monthly
        /\ CurrentSchedule(c).start_date = Jan31
        /\ \E k \in 1..(Len(frame[c].visited) - 2) :
               /\ frame[c].visited[k] = Date(2024, 2, 29)
               /\ frame[c].visited[k + 1] = Date(2024, 3, 31)
               /\ frame[c].visited[k + 2] = Date(2024, 4, 30)

(***************************************************************************)
(* C6: a yearly schedule has one occurrence in each calendar year from     *)
(* start_date's on, in start_date's month, on start_date's day clamped to  *)
(* the length of that month in that year.                                  *)
(***************************************************************************)
YearlyClamping ==
    \A c \in Calls :
        InLoop(c) /\ frame[c].normalized_frequency = S_yearly =>
            LET start_date == CurrentSchedule(c).start_date
                g == GeneratedDates(c)
            IN  /\ \A k \in 1..Len(g) :
                       LET n == OffsetOf(c, k) \div 12
                           y == YearOf(start_date) + n
                       IN  /\ OffsetOf(c, k) >= 0 /\ OffsetOf(c, k) % 12 = 0
                           /\ g[k] = Date(y, MonthOf(start_date),
                                          Min(DayOf(start_date),
                                              DaysInMonth(y, MonthOf(start_date))))
                           /\ start_date = Feb29 =>
                                  g[k] = Date(y, 2, IF IsLeap(y) THEN 29 ELSE 28)
                /\ \A k \in 1..(Len(g) - 1) : YearOf(g[k + 1]) = YearOf(g[k]) + 1

\* A schedule that starts on 2024-02-29 has visited 28 February 2025 and
\* 29 February 2028.
YearlyClampingWitness ==
    \E c \in Calls :
        /\ InLoop(c) /\ frame[c].normalized_frequency = S_yearly
        /\ CurrentSchedule(c).start_date = Feb29
        /\ \E j, k \in 1..Len(frame[c].visited) :
               /\ frame[c].visited[j] = Date(2025, 2, 28)
               /\ frame[c].visited[k] = Date(2028, 2, 29)

(***************************************************************************)
(* C7: the dates of the returned list increase strictly.                   *)
(***************************************************************************)
StrictlyIncreasingDates ==
    \A c \in Calls :
        IsSingle(c) /\ HasReturned(c) =>
            \A k \in 1..(Len(outcome[c].value) - 1) :
                outcome[c].value[k].date < outcome[c].value[k + 1].date

\* A list of three entries or more is returned.
StrictlyIncreasingDatesWitness ==
    \E c \in Calls :
        IsSingle(c) /\ HasReturned(c) /\ Len(outcome[c].value) >= 3

(***************************************************************************)
(* C8: two calls with equal arguments have the same outcome, the same      *)
(* failure or the same list in the same order.                             *)
(***************************************************************************)
Determinism ==
    \A c, d \in Calls :
        pc[c] = "done" /\ pc[d] = "done" /\ args[c] = args[d] =>
            outcome[c] = outcome[d]

\* Two calls with equal arguments and a suppressed occurrence have both
\* returned.
DeterminismWitness ==
    \E c, d \in Calls :
        /\ c # d /\ args[c] = args[d]
        /\ args[c].existing_transactions # <<>>
        /\ HasReturned(c) /\ HasReturned(d)
        /\ outcome[c].value # <<>>

(***************************************************************************)
(* C9: however the steps of concurrent calls interleave, each call has the *)
(* outcome it has when it runs alone.                                      *)
(***************************************************************************)
\* The outcome of a call with arguments a that runs from start to end.
AloneOutcome(a) ==
    CASE a.op = "single" ->
             project_recurring_schedule(a.schedules[1], a.range_start, a.range_end,
                                        a.existing_transactions)
      [] a.op = "batch" ->
             project_recurring_schedules(a.schedules, a.range_start, a.range_end,
                                         a.existing_transactions)
      [] a.op = "income" ->
             project_income(a.schedules[1], a.range_start, a.range_end,
                            a.existing_transactions)

ConcurrentCallsIndependent ==
    \A c \in Calls : pc[c] = "done" => outcome[c] = AloneOutcome(args[c])

\* A call has returned a list while another call, with other arguments, is
\* in the middle of its loop.
ConcurrentCallsIndependentWitness ==
    \E c, d \in Calls :
        /\ args[c] # args[d]
        /\ HasReturned(c) /\ outcome[c].value # <<>>
        /\ pc[d] = "loop" /\ frame[d].visited # <<>>
        /\ frame[d].current_date <= args[d].range_end

(***************************************************************************)
(* C10: project_recurring_schedules against one call of                    *)
(* project_recurring_schedule per schedule, in input order, concatenated.  *)
(***************************************************************************)
RECURSIVE SinglesFrom(_, _, _)
\* The calls for schedules k, k + 1, ... of call a, appended to list.
SinglesFrom(a, k, list) ==
    IF k > Len(a.schedules) THEN Returned(list)
    ELSE LET r == project_recurring_schedule(a.schedules[k], a.range_start,
                                             a.range_end, a.existing_transactions)
         IN  IF r.raised THEN r ELSE SinglesFrom(a, k + 1, list \o r.value)

ConcatenatedSingles(a) == SinglesFrom(a, 1, <<>>)

\* C10 as claimed: the same outcome for every list of schedules, the empty
\* list included.
BatchEqualsConcatenatedSingles ==
    \A c \in Calls :
        IsBatch(c) /\ pc[c] = "done" => outcome[c] = ConcatenatedSingles(args[c])

\* C10 as amended: the same outcome, except that for the empty list with
\* range_start > range_end the batch fails with the range error while no
\* single call is made and the concatenation is the empty list.
BatchEqualsConcatenatedSinglesUnlessEmptyDegenerate ==
    \A c \in Calls :
        IsBatch(c) /\ pc[c] = "done" =>
            IF args[c].schedules = <<>> /\ args[c].range_start > args[c].range_end
            THEN /\ outcome[c] = Raised(RangeError)
                 /\ ConcatenatedSingles(args[c]) = Returned(<<>>)
            ELSE outcome[c] = ConcatenatedSingles(args[c])

\* A batch of two schedules has returned entries of both.
BatchEqualsConcatenatedSinglesWitness ==
    \E c \in Calls :
        /\ IsBatch(c) /\ HasReturned(c)
        /\ Len(args[c].schedules) = 2
        /\ args[c].schedules[1] # args[c].schedules[2]
        /\ \A k \in 1..2 :
               \E j \in 1..Len(outcome[c].value) :
                   outcome[c].value[j].amount = args[c].schedules[k].amount

(***************************************************************************)
(* C11: a call whose schedule frequency is "quarterly" fails.              *)
(***************************************************************************)
IsValidWindow(c) == args[c].range_start <= args[c].range_end

\* C11 as claimed: the failure is the frequency error whatever the other
\* arguments are.
QuarterlyAlwaysFrequencyError ==
    \A c \in Calls :
        IsSingle(c) /\ pc[c] = "done" /\ TheSchedule(c).frequency = S_quarterly =>
            outcome[c] = Raised(FrequencyError)

\* C11 as amended: the call fails whatever the other arguments are, with
\* the range error when range_start > range_end, else with the amount error
\* when amount <= 0, else with the frequency error, whatever the kind.
QuarterlyFailsInCheckOrder ==
    \A c \in Calls :
        IsSingle(c) /\ pc[c] = "done" /\ TheSchedule(c).frequency = S_quarterly =>
            outcome[c] =
                IF ~IsValidWindow(c) THEN Raised(RangeError)
                ELSE IF TheSchedule(c).amount <= 0 THEN Raised(AmountError)
                ELSE Raised(FrequencyError)

\* A quarterly schedule with a kind that is invalid too, a valid window and
\* a positive amount, has failed with the frequency error.
QuarterlyFailsInCheckOrderWitness ==
    \E c \in Calls :
        /\ IsSingle(c) /\ pc[c] = "done"
        /\ TheSchedule(c).frequency = S_quarterly
        /\ TheSchedule(c).kind = S_in_come
        /\ IsValidWindow(c) /\ TheSchedule(c).amount > 0
        /\ outcome[c] = Raised(FrequencyError)

(***************************************************************************)
(* C12: a batch with a schedule that fails validation fails as a whole:    *)
(* the caller receives no list, not even the entries of the valid          *)
(* schedules before it.                                                    *)
(***************************************************************************)
FailsValidation(schedule) ==
    \/ schedule.amount <= 0
    \/ _validate_frequency(schedule.frequency).raised
    \/ _validate_kind(schedule.kind).raised

NoPartialList ==
    \A c \in Calls :
        /\ IsBatch(c) /\ pc[c] = "done"
        /\ \E k \in 1..Len(args[c].schedules) : FailsValidation(args[c].schedules[k])
        => /\ outcome[c].raised
           /\ "value" \notin DOMAIN outcome[c]

\* A batch has failed at its second schedule after entries were computed
\* for its first.
NoPartialListWitness ==
    \E c \in Calls :
        /\ IsBatch(c) /\ HasRaised(c)
        /\ Len(args[c].schedules) = 2
        /\ ~FailsValidation(args[c].schedules[1])
        /\ FailsValidation(args[c].schedules[2])
        /\ projections[c] # <<>>

(***************************************************************************)
(* C13: both operations fail with the range error whenever                 *)
(* range_start > range_end; range_start = range_end is a valid window of   *)
(* one day.                                                                *)
(***************************************************************************)
RangeChecked ==
    \A c \in Calls :
        pc[c] = "done" /\ (IsSingle(c) \/ IsBatch(c)) =>
            /\ args[c].range_start > args[c].range_end =>
                   outcome[c] = Raised(RangeError)
            /\ args[c].range_start <= args[c].range_end =>
                   outcome[c] # Raised(RangeError)

\* A call over a window of one day has returned the occurrence of that day.
RangeCheckedWitness ==
    \E c \in Calls :
        /\ IsSingle(c) /\ HasReturned(c)
        /\ args[c].range_start = args[c].range_end
        /\ ReturnedDates(c) = {args[c].range_start}

(***************************************************************************)
(* C14: over a valid window a schedule with amount <= 0 fails with the     *)
(* amount error and nothing is projected for it; no amount > 0 does.       *)
(***************************************************************************)
AmountChecked ==
    \A c \in Calls :
        IsSingle(c) /\ IsValidWindow(c) =>
            /\ TheSchedule(c).amount <= 0 =>
                   /\ pc[c] \notin {"setup", "loop"}
                   /\ pc[c] = "done" => outcome[c] = Raised(AmountError)
            /\ TheSchedule(c).amount > 0 =>
                   (pc[c] = "done" => outcome[c] # Raised(AmountError))

\* A schedule of amount zero, valid in all else, has failed with the amount
\* error.
AmountCheckedWitness ==
    \E c \in Calls :
        /\ IsSingle(c) /\ IsValidWindow(c) /\ pc[c] = "done"
        /\ TheSchedule(c).amount = 0
        /\ ~_validate_frequency(TheSchedule(c).frequency).raised
        /\ ~_validate_kind(TheSchedule(c).kind).raised
        /\ outcome[c] = Raised(AmountError)

(***************************************************************************)
(* C15: a frequency is accepted exactly when, lowercased and with every    *)
(* character that is not alphanumeric deleted, it is weekly, biweekly,     *)
(* byweekly, monthly or yearly; byweekly runs as biweekly; every other     *)
(* string fails with the frequency error.                                  *)
(***************************************************************************)
LowercaseAlnum(s) == SelectSeq(Lower(s), IsAlnum)

AcceptedFrequencies == {S_weekly, S_biweekly, S_byweekly, S_monthly, S_yearly}

\* Call c reaches the validation of its frequency.
ReachesFrequencyCheck(c) ==
    IsSingle(c) /\ IsValidWindow(c) /\ TheSchedule(c).amount > 0

FrequencyAcceptance ==
    \A c \in Calls :
        ReachesFrequencyCheck(c) =>
            LET accepted ==
                    LowercaseAlnum(TheSchedule(c).frequency) \in AcceptedFrequencies
            IN  /\ pc[c] = "done" =>
                       (outcome[c] = Raised(FrequencyError) <=> ~accepted)
                /\ pc[c] \in {"setup", "loop"} => accepted
                /\ InLoop(c) =>
                       frame[c].normalized_frequency =
                           IF LowercaseAlnum(TheSchedule(c).frequency) = S_byweekly
                           THEN S_biweekly
                           ELSE LowercaseAlnum(TheSchedule(c).frequency)
                /\ InLoop(c)
                       /\ LowercaseAlnum(TheSchedule(c).frequency)
                              \in {S_biweekly, S_byweekly}
                       => frame[c].interval = 14

\* A schedule whose frequency is byweekly has visited two dates 14 days
\* apart.
FrequencyAcceptanceWitness ==
    \E c \in Calls :
        /\ ReachesFrequencyCheck(c) /\ InLoop(c)
        /\ TheSchedule(c).frequency = S_byweekly
        /\ Len(frame[c].visited) >= 2
        /\ frame[c].visited[2] - frame[c].visited[1] = 14

(***************************************************************************)
(* C16: a kind is accepted exactly when, trimmed and lowercased, it is     *)
(* income, expense or investment; punctuation or spaces inside it are not  *)
(* removed, and such a kind fails with the kind error.                     *)
(***************************************************************************)
AcceptedKinds == {S_income, S_expense, S_investment}

\* Call c reaches the validation of its kind.
ReachesKindCheck(c) ==
    /\ ReachesFrequencyCheck(c)
    /\ LowercaseAlnum(TheSchedule(c).frequency) \in AcceptedFrequencies

KindAcceptance ==
    \A c \in Calls :
        ReachesKindCheck(c) =>
            LET accepted == Lower(Strip(TheSchedule(c).kind)) \in AcceptedKinds
            IN  /\ pc[c] = "done" => (outcome[c] = Raised(KindError) <=> ~accepted)
                /\ pc[c] \in {"setup", "loop"} =>
                       /\ accepted
                       /\ frame[c].normalized_kind = Lower(Strip(TheSchedule(c).kind))

\* A schedule of kind "in-come", valid in all else, has failed with the
\* kind error.
KindAcceptanceWitness ==
    \E c \in Calls :
        /\ ReachesKindCheck(c) /\ pc[c] = "done"
        /\ TheSchedule(c).kind = S_in_come
        /\ outcome[c] = Raised(KindError)

(***************************************************************************)
(* C17: every entry emitted for a schedule carries the schedule's amount,  *)
(* account_id and notes, source "projected", transaction_type income for   *)
(* kind income and expense for kinds expense and investment, and           *)
(* is_investment exactly for kind investment.                              *)
(***************************************************************************)
EntryOf(schedule, entry) ==
    LET kind == Lower(Strip(schedule.kind))
    IN  /\ entry.amount = schedule.amount
        /\ entry.account_id = schedule.account_id
        /\ entry.notes = schedule.notes
        /\ entry.source = <<"p", "r", "o", "j", "e", "c", "t", "e", "d">>
        /\ entry.transaction_type = IF kind = S_income THEN S_income ELSE S_expense
        /\ entry.is_investment = (kind = S_investment)

EntryFields ==
    \A c \in Calls :
        /\ InLoop(c) =>
               \A k \in 1..Len(frame[c].projections) :
                   EntryOf(CurrentSchedule(c), frame[c].projections[k])
        /\ IsSingle(c) /\ HasReturned(c) =>
               \A k \in 1..Len(outcome[c].value) :
                   EntryOf(TheSchedule(c), outcome[c].value[k])

\* Entries have been emitted for an investment schedule that has notes.
EntryFieldsWitness ==
    \E c \in Calls :
        /\ InLoop(c)
        /\ Lower(Strip(CurrentSchedule(c).kind)) = S_investment
        /\ CurrentSchedule(c).notes = S_note
        /\ Len(frame[c].projections) >= 2

(***************************************************************************)
(* C18: the output does not depend on the actual transactions of another   *)
(* account or of a type that is not mapped to the schedule's kind; an      *)
(* investment schedule is suppressed by investment transactions only, an   *)
(* expense schedule never by investment transactions.                      *)
(***************************************************************************)
Matches(schedule, txn) ==
    /\ txn.account_id = schedule.account_id
    /\ Lower(Strip(txn.type)) \in SuppressingTypes(Lower(Strip(schedule.kind)))

\* The snapshot without the transactions that do not match the schedule.
MatchingOnly(schedule, existing_transactions) ==
    SelectSeq(existing_transactions, LAMBDA txn : Matches(schedule, txn))

IndependentOfOtherTransactions ==
    \A c \in Calls :
        IsSingle(c) /\ HasReturned(c) =>
            /\ outcome[c] =
                   project_recurring_schedule(
                       TheSchedule(c), args[c].range_start, args[c].range_end,
                       MatchingOnly(TheSchedule(c), args[c].existing_transactions))
            /\ \A k \in 1..Len(args[c].existing_transactions) :
                   LET txn == args[c].existing_transactions[k]
                       kind == Lower(Strip(TheSchedule(c).kind))
                       type == Lower(Strip(txn.type))
                   IN  \/ (kind = S_investment /\ type = S_expense)
                       \/ (kind = S_expense /\ type = S_investment)
                       => (txn.date \in ReturnedDates(c)
                               <=> txn.date \in
                                       OccurrencesInWindow(
                                           TheSchedule(c).start_date,
                                           FrequencyOf(TheSchedule(c)),
                                           args[c].range_start, args[c].range_end)
                                       \ MatchingDates(TheSchedule(c),
                                                       args[c].existing_transactions))

\* An investment schedule has returned the date of an expense transaction
\* of its account, beside a transaction of another account.
IndependentOfOtherTransactionsWitness ==
    \E c \in Calls :
        /\ IsSingle(c) /\ HasReturned(c)
        /\ Lower(Strip(TheSchedule(c).kind)) = S_investment
        /\ \E j, k \in 1..Len(args[c].existing_transactions) :
               /\ args[c].existing_transactions[j].account_id = TheSchedule(c).account_id
               /\ args[c].existing_transactions[j].type = S_expense
               /\ args[c].existing_transactions[j].date \in ReturnedDates(c)
               /\ args[c].existing_transactions[k].account_id # TheSchedule(c).account_id

(***************************************************************************)
(* C19: a valid call whose start_date is after range_end returns the       *)
(* empty list.                                                             *)
(***************************************************************************)
EmptyWhenStartAfterWindow ==
    \A c \in Calls :
        /\ IsSingle(c) /\ pc[c] = "done"
        /\ IsValidWindow(c)
        /\ ~FailsValidation(TheSchedule(c))
        /\ TheSchedule(c).start_date > args[c].range_end
        => outcome[c] = Returned(<<>>)

\* A yearly schedule that starts after the window has returned the empty
\* list.
EmptyWhenStartAfterWindowWitness ==
    \E c \in Calls :
        /\ IsSingle(c) /\ pc[c] = "done"
        /\ IsValidWindow(c)
        /\ ~FailsValidation(TheSchedule(c))
        /\ FrequencyOf(TheSchedule(c)) = S_yearly
        /\ TheSchedule(c).start_date > args[c].range_end
        /\ outcome[c] = Returned(<<>>)

(***************************************************************************)
(* C20: _first_occurrence_on_or_after returns the smallest date that is    *)
(* not before start_date, not before range_start and a multiple of the     *)
(* interval after start_date.                                              *)
(***************************************************************************)
\* The loop of call c is about to be entered for the first time.
AtFirstOccurrence(c) ==
    /\ InLoop(c) /\ frame[c].visited = <<>>
    /\ frame[c].normalized_frequency \in {S_weekly, S_biweekly}

FirstOccurrenceSmallest ==
    \A c \in Calls :
        AtFirstOccurrence(c) =>
            LET days == IF frame[c].normalized_frequency = S_weekly THEN 7 ELSE 14
                start_date == CurrentSchedule(c).start_date
                range_start == args[c].range_start
                d == frame[c].current_date
                Candidate(e) ==
                    e >= start_date /\ e >= range_start /\ (e - start_date) % days = 0
            IN  /\ Candidate(d)
                /\ \A e \in (d - days)..(d - 1) : ~Candidate(e)
                /\ start_date >= range_start => d = start_date
                /\ start_date < range_start =>
                       range_start <= d /\ d <= range_start + days - 1

\* The window opens a whole number of intervals after start_date: the first
\* occurrence is range_start itself.
FirstOccurrenceSmallestWitness ==
    \E c \in Calls :
        /\ AtFirstOccurrence(c)
        /\ frame[c].normalized_frequency = S_biweekly
        /\ args[c].range_start = CurrentSchedule(c).start_date + 28
        /\ frame[c].current_date = args[c].range_start


(***************************************************************************)
(* C21: _first_monthly_on_or_after and _first_yearly_on_or_after return    *)
(* the smallest period offset n >= 0 whose clamped candidate is not before *)
(* range_start, with that candidate: the candidate one period earlier is   *)
(* strictly before range_start.                                            *)
(***************************************************************************)
\* The loop of a calendar schedule of call c is about to be entered for
\* the first time: current_date and month_offset are the pair returned.
AtFirstCalendarOccurrence(c) ==
    /\ InLoop(c) /\ frame[c].visited = <<>>
    /\ frame[c].normalized_frequency \in {S_monthly, S_yearly}

FirstCalendarOffsetSmallest ==
    \A c \in Calls :
        AtFirstCalendarOccurrence(c) =>
            LET period == IF frame[c].normalized_frequency = S_monthly THEN 1 ELSE 12
                start_date == CurrentSchedule(c).start_date
                range_start == args[c].range_start
                n == frame[c].month_offset
            IN  /\ n >= 0 /\ n % period = 0
                /\ frame[c].current_date = ClampedOccurrence(start_date, n)
                /\ frame[c].current_date >= range_start
                /\ \A m \in 0..(n - 1) :
                       m % period = 0 =>
                           ClampedOccurrence(start_date, m) < range_start

\* A yearly schedule anchored on 29 February 2024 with range_start
\* 1 March 2025: the candidate of 2025 is 28 February, one day short.
FirstCalendarOffsetSmallestWitness ==
    \E c \in Calls :
        /\ AtFirstCalendarOccurrence(c)
        /\ frame[c].normalized_frequency = S_yearly
        /\ CurrentSchedule(c).start_date = Feb29
        /\ args[c].range_start = Date(2025, 3, 1)
        /\ frame[c].month_offset = 24
        /\ frame[c].current_date = Date(2026, 2, 28)


(***************************************************************************)
(* C22: when several inputs are invalid at once, the failure is that of    *)
(* the first failing check in the order range, amount, frequency, kind; a  *)
(* batch checks the range once before any schedule and then amount,        *)
(* frequency and kind per schedule in input order, so that it fails with   *)
(* the failure of the first invalid schedule.                              *)
(***************************************************************************)
\* The message of the first of the per-schedule checks that a schedule fails.
FirstScheduleFailure(schedule) ==
    IF schedule.amount <= 0
    THEN "schedule.amount must be greater than zero."
    ELSE IF LowercaseAlnum(schedule.frequency) \notin AcceptedFrequencies
    THEN "Only weekly, biweekly, monthly, or yearly schedules are supported."
    ELSE "Only income, expense, or investment schedules are supported."

FirstFailureReported ==
    \A c \in Calls :
        pc[c] = "done" /\ (IsSingle(c) \/ IsBatch(c)) =>
            LET invalid == {k \in 1..Len(args[c].schedules) :
                               FailsValidation(args[c].schedules[k])}
                first == CHOOSE k \in invalid : \A j \in invalid : k <= j
            IN  IF args[c].range_start > args[c].range_end
                THEN outcome[c] =
                         Raised("range_start must be on or before range_end.")
                ELSE invalid # {} =>
                         outcome[c] =
                             Raised(FirstScheduleFailure(args[c].schedules[first]))

\* A batch over a valid window whose first schedule has only an invalid
\* frequency and whose second has an amount of zero fails with the
\* frequency error.
FirstFailureReportedWitness ==
    \E c \in Calls :
        /\ IsBatch(c) /\ pc[c] = "done" /\ IsValidWindow(c)
        /\ Len(args[c].schedules) = 2
        /\ args[c].schedules[1].amount > 0
        /\ _validate_frequency(args[c].schedules[1].frequency).raised
        /\ args[c].schedules[2].amount <= 0
        /\ outcome[c] = Raised(FrequencyError)


(***************************************************************************)
(* C23: over a degenerate window (range_start > range_end),                *)
(* _project_schedule with the range check disabled emits no entry and      *)
(* performs no iteration of its loop, for every frequency and start_date.  *)
(***************************************************************************)
IsDirect(c) == args[c].op = "_project_schedule"

DegenerateWindowYieldsNothing ==
    \A c \in Calls :
        IsDirect(c) /\ args[c].range_start > args[c].range_end =>
            /\ InLoop(c) =>
                   /\ frame[c].visited = <<>>
                   /\ frame[c].projections = <<>>
                   /\ frame[c].current_date > args[c].range_end
            /\ pc[c] = "done" => outcome[c] = Returned(<<>>)

\* A yearly schedule that started before the end of a degenerate window
\* has returned the empty list.
DegenerateWindowYieldsNothingWitness ==
    \E c \in Calls :
        /\ IsDirect(c) /\ args[c].range_start > args[c].range_end
        /\ TheSchedule(c).start_date < args[c].range_end
        /\ FrequencyOf(TheSchedule(c)) = S_yearly
        /\ pc[c] = "done" /\ outcome[c] = Returned(<<>>)


(***************************************************************************)
(* C24: the output depends on the snapshot only through its set of         *)
(* (account_id, normalized type, date) triples: order, repetitions and     *)
(* several matching transactions on one date make no difference.           *)
(***************************************************************************)
Triples(existing_transactions) ==
    {<<existing_transactions[k].account_id,
       Lower(Strip(existing_transactions[k].type)),
       existing_transactions[k].date>> : k \in 1..Len(existing_transactions)}

\* The mapping account_id -> (normalized type -> set of dates) of a set of
\* triples.
IndexOfTriples(T) ==
    [account_id \in {t[1] : t \in T} |->
        [type \in {t[2] : t \in {u \in T : u[1] = account_id}} |->
            {t[3] : t \in {u \in T : u[1] = account_id /\ u[2] = type}}]]

\* Call c of the recurring engine has built or been handed its index.
IndexBuilt(c) ==
    /\ args[c].op \in {"single", "batch", "_project_schedule"}
    /\ pc[c] \in {"batch_for", "validate", "setup", "loop", "done"}
    /\ ~(IsBatch(c) /\ args[c].range_start > args[c].range_end)

SnapshotOnlyThroughTriples ==
    \A c \in Calls :
        LET T == Triples(args[c].existing_transactions)
        IN  /\ IndexBuilt(c) =>
                   /\ DOMAIN existing_index[c] = {t[1] : t \in T}
                   /\ \A t \in T : t[3] \in existing_index[c][t[1]][t[2]]
                   /\ \A account_id \in DOMAIN existing_index[c] :
                          \A type \in DOMAIN existing_index[c][account_id] :
                              \A date \in existing_index[c][account_id][type] :
                                  <<account_id, type, date>> \in T
            /\ IsSingle(c) /\ pc[c] = "done" =>
                   outcome[c] =
                       _project_schedule(TheSchedule(c), args[c].range_start,
                                         args[c].range_end, IndexOfTriples(T), TRUE)

\* Two transactions of one account, type and date, spelt differently, have
\* suppressed that date once; the other occurrences are returned.
SnapshotOnlyThroughTriplesWitness ==
    \E c \in Calls :
        /\ IsSingle(c) /\ HasReturned(c)
        /\ Len(args[c].existing_transactions) = 2
        /\ args[c].existing_transactions[1] # args[c].existing_transactions[2]
        /\ Cardinality(Triples(args[c].existing_transactions)) = 1
        /\ args[c].existing_transactions[1].date
               \in OccurrencesInWindow(TheSchedule(c).start_date,
                                       FrequencyOf(TheSchedule(c)),
                                       args[c].range_start, args[c].range_end)
                   \ ReturnedDates(c)
        /\ Len(outcome[c].value) = 2


(***************************************************************************)
(* C25: project_income and project_recurring_schedule called with kind     *)
(* income agree on every schedule whose frequency normalizes to weekly,    *)
(* biweekly or monthly, every window, every amount and every snapshot of   *)
(* income of the schedule's account: both fail, or both return the same    *)
(* sequence of (date, amount, account_id).                                 *)
(***************************************************************************)
IsIncome(c) == args[c].op = "income"

\* The RecurringSchedule of kind income of a PaySchedule.
AsRecurring(schedule) ==
    RecurringSchedule(schedule.amount, schedule.start_date, schedule.account_id,
                      schedule.frequency, S_income, None)

\* The income transactions as the actual transactions of type income.
AsActual(existing_income) ==
    [k \in 1..Len(existing_income) |->
        ActualTransaction(existing_income[k].date, existing_income[k].account_id,
                          S_income)]

DateAmountAccount(list) ==
    [k \in 1..Len(list) |-> <<list[k].date, list[k].amount, list[k].account_id>>]

\* The arguments of call c are those that C25 speaks of.
SharedFrequencyOwnAccount(c) ==
    /\ LowercaseAlnum(args[c].schedules[1].frequency)
           \in {S_weekly, S_biweekly, S_byweekly, S_monthly}
    /\ \A k \in 1..Len(args[c].existing_transactions) :
           args[c].existing_transactions[k].account_id
               = args[c].schedules[1].account_id

IncomeAgreesWithRecurring ==
    \A c \in Calls :
        IsIncome(c) /\ pc[c] = "done" /\ SharedFrequencyOwnAccount(c) =>
            LET r == project_recurring_schedule(
                         AsRecurring(args[c].schedules[1]),
                         args[c].range_start, args[c].range_end,
                         AsActual(args[c].existing_transactions))
            IN  /\ outcome[c].raised = r.raised
                /\ ~r.raised =>
                       DateAmountAccount(outcome[c].value) = DateAmountAccount(r.value)

\* project_income has returned two or more entries for a schedule written
\* byweekly, with income of its account on one of its occurrences.
IncomeAgreesWithRecurringWitness ==
    \E c \in Calls :
        /\ IsIncome(c) /\ HasReturned(c) /\ SharedFrequencyOwnAccount(c)
        /\ args[c].schedules[1].frequency = S_byweekly
        /\ Len(outcome[c].value) >= 2
        /\ \E k \in 1..Len(args[c].existing_transactions) :
               args[c].existing_transactions[k].date = Jan19
        /\ Jan19 \notin ReturnedDates(c)


(***************************************************************************)
(* C30: project_income suppresses an occurrence whenever any transaction   *)
(* of existing_income has that date, whatever its account_id: income of    *)
(* another account on an occurrence date removes that occurrence.          *)
(***************************************************************************)
IncomeSuppressedByAnyAccount ==
    \A c \in Calls :
        IsIncome(c) /\ HasReturned(c) =>
            ReturnedDates(c) =
                OccurrencesInWindow(
                    args[c].schedules[1].start_date,
                    income_validate_frequency(args[c].schedules[1].frequency).value,
                    args[c].range_start, args[c].range_end)
                \ {args[c].existing_transactions[k].date :
                       k \in 1..Len(args[c].existing_transactions)}

\* The only income in the snapshot is of another account and on an
\* occurrence date: that date is missing among the dates returned.
IncomeSuppressedByAnyAccountWitness ==
    \E c \in Calls :
        /\ IsIncome(c) /\ HasReturned(c)
        /\ Len(args[c].existing_transactions) = 1
        /\ args[c].existing_transactions[1].account_id
               # args[c].schedules[1].account_id
        /\ args[c].existing_transactions[1].date
               \in OccurrencesInWindow(
                       args[c].schedules[1].start_date,
                       income_validate_frequency(args[c].schedules[1].frequency).value,
                       args[c].range_start, args[c].range_end)
        /\ args[c].existing_transactions[1].date \notin ReturnedDates(c)
        /\ ReturnedDates(c) # {}


(***************************************************************************)
(* C26: no entry is dated before schedule.start_date, for all four         *)
(* frequencies and every window, also windows that begin long before       *)
(* start_date.                                                             *)
(***************************************************************************)
NothingBeforeStartDate ==
    \A c \in Calls :
        /\ InLoop(c) =>
               /\ frame[c].current_date >= CurrentSchedule(c).start_date
               /\ \A k \in 1..Len(frame[c].projections) :
                      frame[c].projections[k].date >= CurrentSchedule(c).start_date
        /\ IsSingle(c) /\ HasReturned(c) =>
               \A d \in ReturnedDates(c) : d >= TheSchedule(c).start_date

\* A yearly schedule over a window that begins ten years before its
\* start_date has returned its start_date as first entry.
NothingBeforeStartDateWitness ==
    \E c \in Calls :
        /\ IsSingle(c) /\ HasReturned(c)
        /\ FrequencyOf(TheSchedule(c)) = S_yearly
        /\ args[c].range_start < TheSchedule(c).start_date - 3650
        /\ Len(outcome[c].value) = 2
        /\ outcome[c].value[1].date = TheSchedule(c).start_date


(***************************************************************************)
(* C27: the loop of _project_schedule terminates for every valid input:    *)
(* current_date strictly increases at every iteration, so that it exceeds  *)
(* range_end after finitely many iterations and the loop is left, also     *)
(* when every occurrence in the window is excluded.                        *)
(***************************************************************************)
\* Call c performs an iteration of its loop, or leaves it.
Iterates(c) == pc[c] = "loop" /\ frame'[c] # frame[c]
LeavesLoop(c) == pc[c] = "loop" /\ pc'[c] # "loop"

\* Every iteration that is not the last increases current_date, and the
\* loop is left only with current_date beyond range_end.
LoopRunsPastRangeEnd ==
    [][\A c \in Calls :
           /\ Iterates(c) /\ ~LeavesLoop(c) =>
                  frame'[c].current_date > frame[c].current_date
           /\ LeavesLoop(c) => frame[c].current_date > args[c].range_end]_vars

\* Every iteration increases current_date or ends the call with the error
\* of the date arithmetic.
LoopIncreasesOrRaises ==
    [][\A c \in Calls :
           /\ Iterates(c) /\ ~LeavesLoop(c) =>
                  frame'[c].current_date > frame[c].current_date
           /\ LeavesLoop(c) =>
                  \/ frame[c].current_date > args[c].range_end
                  \/ /\ pc'[c] = "done"
                     /\ outcome'[c] \in {Raised(DateOverflowError), Raised(YearRangeError)}]_vars

\* A weekly schedule whose occurrences of 20 and 27 December 9999 lie in
\* the window has failed with the OverflowError of 27 December + 7 days.
OverflowReached ==
    \E c \in Calls :
        /\ IsSingle(c) /\ pc[c] = "done"
        /\ TheSchedule(c).start_date = Date(MAXYEAR, 12, 20)
        /\ TheSchedule(c).frequency = S_weekly
        /\ args[c].range_start = Date(MAXYEAR, 12, 1)
        /\ args[c].range_end = date_max
        /\ args[c].existing_transactions = <<>>
        /\ outcome[c] = Raised(DateOverflowError)


(***************************************************************************)
(* C28: in project_recurring_schedules, projecting a schedule leaves the   *)
(* shared index unchanged, so that the block of entries of a schedule is   *)
(* the same whatever other schedules the batch holds, in whatever order,   *)
(* and two identical schedules each emit their full block.                 *)
(***************************************************************************)
\* The entries of a schedule projected by itself over the window and
\* snapshot of call c.
BlockAlone(c, schedule) ==
    project_recurring_schedule(schedule, args[c].range_start, args[c].range_end,
                               args[c].existing_transactions).value

SharedIndexUnchanged ==
    \A c \in Calls :
        IsBatch(c) =>
            /\ pc[c] \in {"batch_for", "validate", "setup", "loop"} =>
                   existing_index[c]
                       = _index_existing_transactions(args[c].existing_transactions)
            /\ pc[c] = "loop" /\ frame[c].current_date > args[c].range_end =>
                   frame[c].projections = BlockAlone(c, CurrentSchedule(c))

\* A batch of twice the same schedule, whose account has no transaction of
\* the schedule's type in the snapshot, has returned the schedule's block
\* twice.
SharedIndexUnchangedWitness ==
    \E c \in Calls :
        /\ IsBatch(c) /\ HasReturned(c)
        /\ Len(args[c].schedules) = 2
        /\ args[c].schedules[1] = args[c].schedules[2]
        /\ args[c].existing_transactions # <<>>
        /\ MatchingDates(args[c].schedules[1], args[c].existing_transactions) = {}
        /\ BlockAlone(c, args[c].schedules[1]) # <<>>
        /\ outcome[c].value
               = BlockAlone(c, args[c].schedules[1]) \o BlockAlone(c, args[c].schedules[1])


(***************************************************************************)
(* C29: projection is additive over adjacent windows: for                  *)
(* range_start <= m < range_end the result over [range_start, m] followed  *)
(* by the result over [m + 1 day, range_end] is the result over            *)
(* [range_start, range_end].                                               *)
(***************************************************************************)
\* The outcome of call c's schedule and snapshot over another window.
OverWindow(c, first_day, last_day) ==
    project_recurring_schedule(TheSchedule(c), first_day, last_day,
                               args[c].existing_transactions)

AdjacentWindowsAdditive ==
    \A c \in Calls :
        IsSingle(c) /\ pc[c] = "done" =>
            \A m \in args[c].range_start..(args[c].range_end - 1) :
                LET left == OverWindow(c, args[c].range_start, m)
                    right == OverWindow(c, m + 1, args[c].range_end)
                IN  IF outcome[c].raised
                    THEN right = outcome[c]
                    ELSE /\ ~left.raised /\ ~right.raised
                         /\ left.value \o right.value = outcome[c].value

\* A yearly schedule anchored on 29 February 2024 has returned its
\* occurrences of 2024 and 2026 over a window that can be cut on either
\* side of the suppressed 28 February 2025.
AdjacentWindowsAdditiveWitness ==
    \E c \in Calls :
        /\ IsSingle(c) /\ HasReturned(c)
        /\ FrequencyOf(TheSchedule(c)) = S_yearly
        /\ TheSchedule(c).start_date = Feb29
        /\ args[c].range_start = Jan1 /\ args[c].range_end = Date(2026, 3, 1)
        /\ ReturnedDates(c) = {Feb29, Date(2026, 2, 28)}
        /\ ~OverWindow(c, Jan1, Date(2025, 2, 27)).raised
        /\ OverWindow(c, Date(2025, 2, 28), Date(2026, 3, 1)).value
               = <<outcome[c].value[2]>>

====
